---- MODULE Spec2Model ----
(***************************************************************************)
(* ccwatch: the daemon's periodic-check scheduler (DaemonCommand), one     *)
(* check cycle (CheckUsageCommand.execute), the notification gate          *)
(* (shouldSendNotification) and the persisted state record                 *)
(* (FileStateRepository).                                                  *)
(*                                                                         *)
(* Dates are naturals: 0 is an absent date (undefined), 1..MaxDay are      *)
(* calendar days in clock order.  The JavaScript event loop is modelled by *)
(* one action per continuation: the code between two awaits runs           *)
(* atomically, other callbacks run only at an await.                       *)
(***************************************************************************)
EXTENDS Integers, FiniteSets, Sequences, Bags, TLC

VARIABLES
  today,          \* Clock.getToday() as of now
  config,         \* Config: threshold, slackWebhookUrl (set or not)
  stored,         \* the state file of FileStateRepository
  phase,          \* position of DaemonCommand.execute
  isShuttingDown, \* DaemonCommand.isShuttingDown
  intervalId,     \* DaemonCommand.intervalId # null
  exitPending,    \* a signal handler awaits cleanup() before process.exit
  currentState,   \* `currentState` of DaemonCommand.execute
  loopState,      \* `currentState` of DaemonCommand.startPeriodicChecks
  loaded,         \* what stateRepository.load() returned at start
  checkCount,     \* DaemonCommand.checkCount
  cyc,            \* the CheckUsageCommand.execute calls in flight
  started,        \* check cycles started so far, by all instances
  deliveredInst,  \* per day: successful sink calls of this instance
  deliveredPrev,  \* per day: an earlier instance delivered on that day
  gate,           \* shouldSendNotification applied to an arbitrary input
  call,           \* CheckUsageCommand.execute called on an arbitrary input
  sem,            \* CCUsageRepository.executionSemaphore and its callers
  lock,           \* FileProcessManager: the pid file and the processes
  life,           \* DaemonCommand's life cycle: start, ticks, shutdown
  store,          \* FileStateRepository: the state file and its users
  once,           \* Application.runOnceMode, run after run
  manager,        \* one FileProcessManager instance and its lock records
  usage           \* CCUsageRepository.fetchUsageData on an arbitrary payload

vars == <<today, config, stored, phase, isShuttingDown, intervalId,
          exitPending, currentState, loopState, loaded, checkCount, cyc,
          started, deliveredInst, deliveredPrev, gate, call, sem, lock,
          life, store, once, manager, usage>>

daemonVars == <<today, config, stored, phase, isShuttingDown, intervalId,
                exitPending, currentState, loopState, loaded, checkCount,
                cyc, started, deliveredInst, deliveredPrev>>

----------------------------------------------------------------------------
\* Bounds of the model.

MaxDay == 2

MaxCost == 2

MaxInFlight == 2

MaxCycles == 3

GateMaxDay == 3

CallMaxDay == 3

MaxCallers == 3

MaxProcs == 2

LifeMaxCycles == 3

LifeMaxRequests == 2

OnceMaxDay == 2

OnceMaxRuns == 2

----------------------------------------------------------------------------
\* Data model.

Days == 1..MaxDay

Dates == 0..MaxDay

DaemonState == [lastNotificationDate : Dates, lastExceedanceDate : Dates]

EmptyState == [lastNotificationDate |-> 0, lastExceedanceDate |-> 0]

\* What the state file can hold when the daemon starts on day 1: any record
\* written up to that day, each date absent or set.
WrittenStates == [lastNotificationDate : 0..1, lastExceedanceDate : 0..1]

Costs == 0..MaxCost

\* config.threshold: one below the largest cost, so that a fetched cost can
\* be below it, equal to it and above it.
Thresholds == {MaxCost - 1}

NoRecord == [kind |-> "none", state |-> EmptyState]

CorruptRecord == [kind |-> "corrupt", state |-> EmptyState]

Record(s) == [kind |-> "ok", state |-> s]

----------------------------------------------------------------------------
\* FileStateRepository.

\* load(): {} when the file does not exist or cannot be parsed.
Load(rec) == IF rec.kind = "ok" THEN rec.state ELSE EmptyState

\* save(): writeFileSync replaces the file; a write error is logged and
\* swallowed, the file keeps its content.
Save(rec, s, writeOk) == IF writeOk THEN Record(s) ELSE rec

----------------------------------------------------------------------------
\* CheckUsageCommand.

\* Mutant: the "already notified today" test is missing.
shouldSendNotification_NoTodayTest(state, exceeded, t) ==
  IF ~exceeded THEN FALSE
  ELSE IF state.lastExceedanceDate # t THEN TRUE
  ELSE state.lastNotificationDate # t

\* shouldSendNotification(state, exceeded), `t` being clock.getToday().
shouldSendNotification(state, exceeded, t) ==
  IF ~exceeded THEN FALSE
  ELSE IF state.lastNotificationDate = t THEN FALSE
  ELSE IF state.lastExceedanceDate # t THEN TRUE
  ELSE state.lastNotificationDate # t

\* const thresholdExceeded = currentCost > config.threshold
ThresholdExceeded(currentCost, threshold) == currentCost > threshold

\* newState = { ...state, lastNotificationDate: clock.getToday(),
\*              lastExceedanceDate: clock.getToday() }: two clock reads.
UpdatedState(state, nd, ed) ==
  [state EXCEPT !.lastNotificationDate = nd, !.lastExceedanceDate = ed]

\* Mutant: a cost back within the threshold clears the state.
UnsentState_ClearWhenWithin(state, exceeded, t) ==
  IF exceeded THEN state ELSE EmptyState

\* The newState of a cycle that sends nothing is its input state
\* (let newState = state, never reassigned outside the send branch; the
\* early return for a missing month returns state itself).
UnsentState(state, exceeded, t) == state

----------------------------------------------------------------------------
\* The CheckUsageCommand.execute calls in flight are a bag of records: the
\* position of the call (pc), its input state, and what it has decided and
\* produced so far.

NewCycle(s) ==
  [pc |-> "fetch", state |-> s, decidedDay |-> 0,
   thresholdExceeded |-> FALSE, notificationSent |-> FALSE,
   sinkCalled |-> FALSE, newState |-> EmptyState]

One(r) == SetToBag({r})

\* The bag of calls with call r replaced by r2, and without call r.
Move(r, r2) == (cyc (-) One(r)) (+) One(r2)

Drop(r) == cyc (-) One(r)

\* What fetchUsageData can hand to a cycle: a failure, or usage data
\* without or with an entry for the current month.
FetchOutcomes ==
  {[ok |-> FALSE, present |-> FALSE, cost |-> 0],
   [ok |-> TRUE, present |-> FALSE, cost |-> 0]}
  \cup {[ok |-> TRUE, present |-> TRUE, cost |-> k] : k \in Costs}

Alive == phase \in {"first", "periodic", "stopped"}

\* The MonitorState the scheduler would hand to a cycle started now.
MemState == IF phase = "periodic" \/ phase = "stopped" THEN loopState
            ELSE currentState

\* startPeriodicChecks: the local currentState starts as execute's, the
\* interval timer is armed and execute awaits the returned promise.
ArmInterval ==
  /\ loopState' = currentState'
  /\ intervalId' = TRUE
  /\ phase' = "periodic"

\* CheckUsageCommand.execute from the return of fetchUsageData to the await
\* of notificationService.send, or to its return when nothing is sent: what
\* call r becomes, given the fetch outcome, the Config and the clock's date.
AfterFetch(r, out, cfg, t) ==
  LET exceeded == out.present /\ ThresholdExceeded(out.cost, cfg.threshold)
  IN  IF ~out.ok
        THEN [r EXCEPT !.pc = "failed"]
      ELSE IF /\ exceeded
              /\ shouldSendNotification(r.state, exceeded, t)
              /\ cfg.slackWebhookUrl
        THEN [r EXCEPT !.pc = "send",
                       !.thresholdExceeded = TRUE,
                       !.decidedDay = t,
                       !.sinkCalled = TRUE]
      ELSE [r EXCEPT !.pc = "returned",
                     !.thresholdExceeded = exceeded,
                     !.decidedDay = IF exceeded THEN t ELSE 0,
                     !.newState = UnsentState(r.state, exceeded, t)]

\* CheckUsageCommand.execute from the end of notificationService.send to
\* its return.  The clock is read twice for the new state: nd and ed are
\* the dates of the first and of the second read.
AfterSend(r, ok, nd, ed) ==
  IF ok
    THEN [r EXCEPT !.pc = "returned",
                   !.notificationSent = TRUE,
                   !.newState = UpdatedState(r.state, nd, ed)]
    ELSE [r EXCEPT !.pc = "failed"]

\* execute resolves with { success: true, data } or goes on to its next
\* await; its caller resumes in a later turn of the event loop.
CycleStep(r, r2) ==
  /\ cyc' = Move(r, r2)
  /\ UNCHANGED <<currentState, loopState, stored, phase, intervalId,
                 checkCount>>

\* Mutant: a failed sink call still marks today as notified in the state
\* the caller holds.
CycleFail_MarksNotified(r) ==
  /\ cyc' = Move(r, [r EXCEPT !.pc = "failed"])
  /\ UNCHANGED <<stored, phase, intervalId, checkCount>>
  /\ IF r.pc = "send"
       THEN IF phase = "first"
              THEN /\ currentState' =
                        [currentState EXCEPT !.lastNotificationDate = today]
                   /\ UNCHANGED loopState
              ELSE /\ loopState' =
                        [loopState EXCEPT !.lastNotificationDate = today]
                   /\ UNCHANGED currentState
       ELSE UNCHANGED <<currentState, loopState>>

\* execute resolves with { success: false, error }: safeExecute caught the
\* throw of the failed fetch or of notificationService.send.
CycleFail(r) ==
  /\ cyc' = Move(r, [r EXCEPT !.pc = "failed"])
  /\ UNCHANGED <<currentState, loopState, stored, phase, intervalId,
                 checkCount>>

----------------------------------------------------------------------------
\* DaemonCommand.

\* execute up to the first await of checkUsageCommand.execute: the process
\* lock, the initial load, the signal handlers, the first check.
Start(lockOk) ==
  /\ phase = "idle"
  /\ started < MaxCycles
  /\ IF lockOk
       THEN /\ phase' = "first"
            /\ loaded' = Load(stored)
            /\ currentState' = Load(stored)
            /\ cyc' = One(NewCycle(Load(stored)))
            /\ started' = started + 1
       ELSE /\ phase' = "failed"
            /\ UNCHANGED <<loaded, currentState, cyc, started>>
  /\ UNCHANGED <<today, config, stored, isShuttingDown, intervalId,
                 exitPending, loopState, checkCount, deliveredInst,
                 deliveredPrev, gate, call, sem, lock,
                 life, store, once, manager, usage>>

\* The setInterval callback up to its first await.
Tick ==
  /\ phase = "periodic"
  /\ intervalId
  /\ IF isShuttingDown
       THEN /\ intervalId' = FALSE
            /\ phase' = "stopped"
            /\ UNCHANGED <<cyc, started>>
       ELSE /\ BagCardinality(cyc) < MaxInFlight
            /\ started < MaxCycles
            /\ cyc' = cyc (+) One(NewCycle(loopState))
            /\ started' = started + 1
            /\ UNCHANGED <<intervalId, phase>>
  /\ UNCHANGED <<today, config, stored, isShuttingDown, exitPending,
                 currentState, loopState, loaded, checkCount, deliveredInst,
                 deliveredPrev, gate, call, sem, lock,
                 life, store, once, manager, usage>>

\* A call in flight resumes after fetchUsageData.
FetchDone(r, out) ==
  /\ Alive
  /\ BagIn(r, cyc)
  /\ r.pc = "fetch"
  /\ IF ~out.ok
       THEN CycleFail(r)
       ELSE CycleStep(r, AfterFetch(r, out, config, today))
  /\ UNCHANGED <<today, config, isShuttingDown, exitPending, loaded,
                 started, deliveredInst, deliveredPrev, gate, call, sem, lock,
                 life, store, once, manager, usage>>

\* A call in flight resumes after notificationService.send; `tick` is the
\* date changing between the two clock reads of the new state.
SendDone(r, ok, tick) ==
  /\ Alive
  /\ BagIn(r, cyc)
  /\ r.pc = "send"
  /\ tick => (ok /\ today < MaxDay)
  /\ LET nd == today
         ed == IF tick THEN today + 1 ELSE today
     IN  IF ok
           THEN /\ CycleStep(r, AfterSend(r, ok, nd, ed))
                /\ today' = ed
                /\ deliveredInst' =
                     [deliveredInst EXCEPT ![today] = IF @ < 2 THEN @ + 1 ELSE @]
           ELSE /\ CycleFail(r)
                /\ UNCHANGED <<today, deliveredInst>>
  /\ UNCHANGED <<config, isShuttingDown, exitPending, loaded, started,
                 deliveredPrev, gate, call, sem, lock,
                 life, store, once, manager, usage>>

\* Mutant: the caller saves the state it holds when the call reaches its
\* delivery, without waiting for the sink call to resolve.
Return_BeforeSinkResolves(r, writeOk) ==
  /\ Alive
  /\ BagIn(r, cyc)
  /\ r.pc \in {"send", "returned"}
  /\ cyc' = Move(r, [r EXCEPT !.pc = "saved"])
  /\ stored' = Save(stored, r.newState, writeOk)
  /\ IF phase = "first"
       THEN /\ currentState' = r.newState
            /\ UNCHANGED loopState
       ELSE /\ loopState' = r.newState
            /\ UNCHANGED currentState
  /\ UNCHANGED <<today, config, phase, isShuttingDown, intervalId,
                 exitPending, loaded, checkCount, started, deliveredInst,
                 deliveredPrev, gate, call, sem, lock,
                 life, store, once, manager, usage>>

\* The caller of execute on { success: true, data }: it replaces its
\* currentState by data.newState and calls stateRepository.save with it
\* (the first check in execute, later checks in the interval callback).
Return(r, writeOk) ==
  /\ Alive
  /\ BagIn(r, cyc)
  /\ r.pc = "returned"
  /\ cyc' = Move(r, [r EXCEPT !.pc = "saved"])
  /\ stored' = Save(stored, r.newState, writeOk)
  /\ IF phase = "first"
       THEN /\ currentState' = r.newState
            /\ UNCHANGED loopState
       ELSE /\ loopState' = r.newState
            /\ UNCHANGED currentState
  /\ UNCHANGED <<today, config, phase, isShuttingDown, intervalId,
                 exitPending, loaded, checkCount, started, deliveredInst,
                 deliveredPrev, gate, call, sem, lock,
                 life, store, once, manager, usage>>

\* Mutant: a failed check ends the scheduler: the failure of the first check
\* fails execute, the failure of a later one clears the interval timer.
ReturnFailure_StopsLoop(r) ==
  /\ Alive
  /\ BagIn(r, cyc)
  /\ r.pc = "failed"
  /\ cyc' = Drop(r)
  /\ UNCHANGED <<currentState, loopState>>
  /\ IF phase = "first"
       THEN phase' = "failed" /\ UNCHANGED intervalId
       ELSE intervalId' = FALSE /\ UNCHANGED phase
  /\ UNCHANGED <<today, config, stored, isShuttingDown, exitPending, loaded,
                 checkCount, started, deliveredInst, deliveredPrev, gate, call, sem, lock,
                 life, store, once, manager, usage>>

\* The caller of execute on { success: false, error }: it keeps its state
\* and saves nothing; the interval callback logs the error, the first check
\* goes on to start the periodic checks.
ReturnFailure(r) ==
  /\ Alive
  /\ BagIn(r, cyc)
  /\ r.pc = "failed"
  /\ cyc' = Drop(r)
  /\ UNCHANGED currentState
  /\ IF phase = "first"
       THEN ArmInterval
       ELSE UNCHANGED <<loopState, intervalId, phase>>
  /\ UNCHANGED <<today, config, stored, isShuttingDown, exitPending, loaded,
                 checkCount, started, deliveredInst, deliveredPrev, gate, call, sem, lock,
                 life, store, once, manager, usage>>

\* The caller after `await stateRepository.save`: checkCount++, and for the
\* first check the start of the periodic checks.
SaveDone(r) ==
  /\ Alive
  /\ BagIn(r, cyc)
  /\ r.pc = "saved"
  /\ cyc' = Drop(r)
  /\ checkCount' = checkCount + 1
  /\ UNCHANGED currentState
  /\ IF phase = "first"
       THEN ArmInterval
       ELSE UNCHANGED <<loopState, intervalId, phase>>
  /\ UNCHANGED <<today, config, stored, isShuttingDown, exitPending, loaded,
                 started, deliveredInst, deliveredPrev, gate, call, sem, lock,
                 life, store, once, manager, usage>>

\* forceShutdown(), first call: the flag, then cleanup() clears the timer.
ForceShutdown ==
  /\ phase \in {"first", "periodic"}
  /\ ~isShuttingDown
  /\ isShuttingDown' = TRUE
  /\ intervalId' = FALSE
  /\ UNCHANGED <<today, config, stored, phase, exitPending, currentState,
                 loopState, loaded, checkCount, cyc, started, deliveredInst,
                 deliveredPrev, gate, call, sem, lock,
                 life, store, once, manager, usage>>

\* The SIGINT/SIGTERM handler up to `await this.cleanup()`.
Signal ==
  /\ phase \in {"first", "periodic"}
  /\ ~isShuttingDown
  /\ isShuttingDown' = TRUE
  /\ intervalId' = FALSE
  /\ exitPending' = TRUE
  /\ UNCHANGED <<today, config, stored, phase, currentState, loopState,
                 loaded, checkCount, cyc, started, deliveredInst,
                 deliveredPrev, gate, call, sem, lock,
                 life, store, once, manager, usage>>

\* The process ends: process.exit(0) of the signal handler, a crash, or
\* the end of a process whose execute has returned.  Everything in memory
\* is gone, the state file stays.
ProcessEnd ==
  /\ phase' = "exited"
  /\ isShuttingDown' = FALSE
  /\ intervalId' = FALSE
  /\ exitPending' = FALSE
  /\ currentState' = EmptyState
  /\ loopState' = EmptyState
  /\ loaded' = EmptyState
  /\ checkCount' = 0
  /\ cyc' = EmptyBag
  /\ deliveredPrev' = [d \in Days |-> deliveredPrev[d] \/ deliveredInst[d] > 0]
  /\ deliveredInst' = [d \in Days |-> 0]
  /\ UNCHANGED <<today, config, stored, started, gate, call, sem, lock,
                 life, store, once, manager, usage>>

Exit ==
  /\ exitPending
  /\ ProcessEnd

Crash ==
  /\ phase \in {"first", "periodic", "stopped"}
  /\ ~exitPending
  /\ ProcessEnd

\* A new process: a new DaemonCommand over the same state file.
Restart ==
  /\ phase \in {"exited", "failed"}
  /\ started < MaxCycles
  /\ phase' = "idle"
  /\ UNCHANGED <<today, config, stored, isShuttingDown, intervalId,
                 exitPending, currentState, loopState, loaded, checkCount,
                 cyc, started, deliveredInst, deliveredPrev, gate, call, sem, lock,
                 life, store, once, manager, usage>>

\* Midnight.
ClockTick ==
  /\ today < MaxDay
  /\ today' = today + 1
  /\ UNCHANGED <<config, stored, phase, isShuttingDown, intervalId,
                 exitPending, currentState, loopState, loaded, checkCount,
                 cyc, started, deliveredInst, deliveredPrev, gate, call, sem, lock,
                 life, store, once, manager, usage>>

\* The continuations of the calls in flight: each runs for some call that
\* is at its await, with whatever its collaborator answered.
FetchDoneStep ==
  \E r \in BagToSet(cyc), out \in FetchOutcomes : FetchDone(r, out)

SendDoneStep ==
  \E r \in BagToSet(cyc), ok \in BOOLEAN, tick \in BOOLEAN :
    SendDone(r, ok, tick)

ReturnStep == \E r \in BagToSet(cyc), writeOk \in BOOLEAN : Return(r, writeOk)

ReturnFailureStep == \E r \in BagToSet(cyc) : ReturnFailure(r)

SaveDoneStep == \E r \in BagToSet(cyc) : SaveDone(r)

----------------------------------------------------------------------------
\* The notification gate on its own: every (state, exceeded, today).

GateDates == 0..GateMaxDay

GateIdle ==
  [state |-> EmptyState, exceeded |-> FALSE, today |-> 1, applied |-> FALSE,
   send |-> FALSE]

GateInputs ==
  {[state |-> [lastNotificationDate |-> n, lastExceedanceDate |-> e],
    exceeded |-> x, today |-> t, applied |-> FALSE, send |-> FALSE] :
     n \in GateDates, e \in GateDates, x \in BOOLEAN, t \in 1..GateMaxDay}

GateApply ==
  /\ ~gate.applied
  /\ gate' = [gate EXCEPT
                !.applied = TRUE,
                !.send = shouldSendNotification(gate.state, gate.exceeded,
                                                gate.today)]
  /\ UNCHANGED <<daemonVars, call, sem, lock,
                 life, store, once, manager, usage>>

\* The next call, with another input.
GateNext ==
  /\ gate.applied
  /\ gate' \in GateInputs
  /\ UNCHANGED <<daemonVars, call, sem, lock,
                 life, store, once, manager, usage>>

----------------------------------------------------------------------------
\* CheckUsageCommand.execute on its own: one call at a time, on every input
\* state, Config and date, with the date changing while the call awaits.

CallDays == 1..CallMaxDay

CallStates ==
  [lastNotificationDate : 0..CallMaxDay, lastExceedanceDate : 0..CallMaxDay]

CallIdle ==
  [today |-> 1, config |-> [threshold |-> MaxCost - 1, slackWebhookUrl |-> TRUE],
   r |-> NewCycle(EmptyState)]

CallInputs ==
  {[today |-> t, config |-> c, r |-> NewCycle(s)] :
     t \in CallDays,
     c \in [threshold : Thresholds, slackWebhookUrl : BOOLEAN],
     s \in CallStates}

CallFetchDone(out) ==
  /\ call.r.pc = "fetch"
  /\ call' = [call EXCEPT !.r = AfterFetch(call.r, out, call.config, call.today)]
  /\ UNCHANGED <<daemonVars, gate, sem, lock,
                 life, store, once, manager, usage>>

CallSendDone(ok, tick) ==
  /\ call.r.pc = "send"
  /\ tick => (ok /\ call.today < CallMaxDay)
  /\ LET nd == call.today
         ed == IF tick THEN call.today + 1 ELSE call.today
     IN  call' = [call EXCEPT !.r = AfterSend(call.r, ok, nd, ed),
                              !.today = IF ok THEN ed ELSE @]
  /\ UNCHANGED <<daemonVars, gate, sem, lock,
                 life, store, once, manager, usage>>

\* Midnight while the call awaits its fetch or its delivery.
CallClockTick ==
  /\ call.r.pc \in {"fetch", "send"}
  /\ call.today < CallMaxDay
  /\ call' = [call EXCEPT !.today = @ + 1]
  /\ UNCHANGED <<daemonVars, gate, sem, lock,
                 life, store, once, manager, usage>>

\* The next call, with another input.
CallNext ==
  /\ call.r.pc \in {"returned", "failed"}
  /\ call' \in CallInputs
  /\ UNCHANGED <<daemonVars, gate, sem, lock,
                 life, store, once, manager, usage>>

----------------------------------------------------------------------------
\* BinarySemaphore (the guard of CCUsageRepository) and the fetchUsageData
\* calls that use it.  All of acquire, release and the timer callback run
\* synchronously; a caller resumes in a later turn of the event loop.
\*   st[c]: "idle", "waiting" (promise pending), "granted" (acquire
\*   resolved true), "refused" (acquire resolved false), "running" (the
\*   external command is executing), "done".

Callers == 1..MaxCallers

FetchResults == {"ok", "commandFailed", "tooLarge", "malformed"}

SemIdle ==
  [acquired |-> FALSE,
   waitQueue |-> << >>,
   timers |-> {},
   st |-> [c \in Callers |-> "idle"],
   resolves |-> [c \in Callers |-> 0],
   waited |-> {},
   lateFalse |-> {},
   executed |-> {},
   releases |-> [c \in Callers |-> 0],
   result |-> [c \in Callers |-> "none"],
   warnings |-> 0,
   forces |-> 0]

\* The wait queue without the entry of caller c (findIndex, splice).
Without(q, c) == SelectSeq(q, LAMBDA x : x # c)

InQueue(q, c) == \E i \in 1..Len(q) : q[i] = c

\* Mutant: the fast path grants without taking the flag.
SemAcquire_NoFlag(s, c) ==
  IF ~s.acquired
    THEN [s EXCEPT !.st[c] = "granted", !.resolves[c] = @ + 1]
    ELSE [s EXCEPT !.waitQueue = Append(@, c),
                   !.timers = @ \cup {c},
                   !.waited = @ \cup {c},
                   !.st[c] = "waiting"]

\* acquire(timeoutMs) called by c: true at once when the guard is free,
\* otherwise a pending promise in the wait queue with its timer armed.
SemAcquire(s, c) ==
  IF ~s.acquired
    THEN [s EXCEPT !.acquired = TRUE,
                   !.st[c] = "granted",
                   !.resolves[c] = @ + 1]
    ELSE [s EXCEPT !.waitQueue = Append(@, c),
                   !.timers = @ \cup {c},
                   !.waited = @ \cup {c},
                   !.st[c] = "waiting"]

\* Mutant: the timer resolves false but leaves the entry in the queue.
SemTimeout_KeepsQueued(s, c) ==
  IF s.st[c] = "waiting"
    THEN [s EXCEPT !.timers = @ \ {c},
                   !.st[c] = "refused",
                   !.resolves[c] = @ + 1]
    ELSE [s EXCEPT !.timers = @ \ {c},
                   !.lateFalse = @ \cup {c}]

\* The setTimeout callback of c's acquire: the entry leaves the queue and
\* resolve(false) is called; on a promise already resolved that call has no
\* effect on the promise.
SemTimeout(s, c) ==
  IF s.st[c] = "waiting"
    THEN [s EXCEPT !.waitQueue = Without(@, c),
                   !.timers = @ \ {c},
                   !.st[c] = "refused",
                   !.resolves[c] = @ + 1]
    ELSE [s EXCEPT !.waitQueue = Without(@, c),
                   !.timers = @ \ {c},
                   !.lateFalse = @ \cup {c}]

\* Mutant: release() on a free guard takes the flag.
SemRelease_TakesFreeGuard(s) ==
  IF ~s.acquired THEN [s EXCEPT !.acquired = TRUE]
  ELSE IF s.waitQueue = << >> THEN [s EXCEPT !.acquired = FALSE]
  ELSE LET next == Head(s.waitQueue)
       IN  [s EXCEPT !.acquired = TRUE,
                     !.waitQueue = Tail(@),
                     !.timers = @ \ {next},
                     !.st[next] = "granted",
                     !.resolves[next] = @ + 1]

\* Mutant: release hands the guard to the newest waiter.
SemRelease_WakesNewest(s) ==
  IF ~s.acquired THEN s
  ELSE IF s.waitQueue = << >> THEN [s EXCEPT !.acquired = FALSE]
  ELSE LET next == s.waitQueue[Len(s.waitQueue)]
       IN  [s EXCEPT !.acquired = TRUE,
                     !.waitQueue = SubSeq(@, 1, Len(@) - 1),
                     !.timers = @ \ {next},
                     !.st[next] = "granted",
                     !.resolves[next] = @ + 1]

\* release(): a warning when not acquired; otherwise the flag is cleared
\* and, with a waiter queued, taken again for the head of the queue, whose
\* timer is cleared and whose promise is resolved true.
SemRelease(s) ==
  IF ~s.acquired THEN s
  ELSE IF s.waitQueue = << >> THEN [s EXCEPT !.acquired = FALSE]
  ELSE LET next == Head(s.waitQueue)
       IN  [s EXCEPT !.acquired = TRUE,
                     !.waitQueue = Tail(@),
                     !.timers = @ \ {next},
                     !.st[next] = "granted",
                     !.resolves[next] = @ + 1]

\* fetchUsageData up to `await this.executionSemaphore.acquire(...)`.
FetchStart(c) ==
  /\ sem.st[c] = "idle"
  /\ sem' = SemAcquire(sem, c)
  /\ UNCHANGED <<daemonVars, gate, call, lock, life, store, once, manager, usage>>

\* The timer of a pending acquire fires.
FetchTimer(c) ==
  /\ c \in sem.timers
  /\ sem' = SemTimeout(sem, c)
  /\ UNCHANGED <<daemonVars, gate, call, lock, life, store, once, manager, usage>>

\* fetchUsageData resumes with acquired = true and starts the command.
FetchAcquired(c) ==
  /\ sem.st[c] = "granted"
  /\ sem' = [sem EXCEPT !.st[c] = "running", !.executed = @ \cup {c}]
  /\ UNCHANGED <<daemonVars, gate, call, lock, life, store, once, manager, usage>>

\* Mutant: the guard-timeout path runs the release of the finally block.
FetchRefused_Releases(c) ==
  /\ sem.st[c] = "refused"
  /\ sem' = [SemRelease(sem) EXCEPT !.st[c] = "done",
                                    !.result[c] = "guardTimeout",
                                    !.releases[c] = @ + 1]
  /\ UNCHANGED <<daemonVars, gate, call, lock, life, store, once, manager, usage>>

\* fetchUsageData resumes with acquired = false: it throws the timeout
\* error before the try block.
FetchRefused(c) ==
  /\ sem.st[c] = "refused"
  /\ sem' = [sem EXCEPT !.st[c] = "done", !.result[c] = "guardTimeout"]
  /\ UNCHANGED <<daemonVars, gate, call, lock, life, store, once, manager, usage>>

\* Mutant: the release is the last statement of the try block, not a
\* finally: a throw skips it.
FetchFinish_ReleaseOnSuccessOnly(c, out) ==
  /\ sem.st[c] = "running"
  /\ sem' = IF out = "ok"
              THEN [SemRelease(sem) EXCEPT !.st[c] = "done",
                                           !.result[c] = out,
                                           !.releases[c] = @ + 1]
              ELSE [sem EXCEPT !.st[c] = "done", !.result[c] = out]
  /\ UNCHANGED <<daemonVars, gate, call, lock, life, store, once, manager, usage>>

\* fetchUsageData after the command: the size check, JSON.parse, the
\* catch, and in every case the release of the finally block.
FetchFinish(c, out) ==
  /\ sem.st[c] = "running"
  /\ sem' = [SemRelease(sem) EXCEPT !.st[c] = "done",
                                    !.result[c] = out,
                                    !.releases[c] = @ + 1]
  /\ UNCHANGED <<daemonVars, gate, call, lock, life, store, once, manager, usage>>

\* The guard's interface used directly: release() by a caller that does not
\* hold it, and forceRelease().
\*   warnings: the number of "release() called but not acquired" warnings.
\*   forces:   the number of forceRelease() calls.

GuardMaxWarnings == 1

GuardMaxForces == 1

\* The callers with an entry in the wait queue.
Queued(s) == {s.waitQueue[i] : i \in 1..Len(s.waitQueue)}

\* Mutant: forceRelease resolves the waiters and leaves their timers armed.
SemForceRelease_KeepsTimers(s) ==
  [s EXCEPT !.acquired = FALSE,
            !.waitQueue = << >>,
            !.st = [c \in Callers |->
                      IF c \in Queued(s) /\ s.st[c] = "waiting"
                        THEN "refused" ELSE s.st[c]],
            !.resolves = [c \in Callers |->
                            IF c \in Queued(s) /\ s.st[c] = "waiting"
                              THEN s.resolves[c] + 1 ELSE s.resolves[c]]]

\* forceRelease(): the flag is cleared; every entry is shifted off the wait
\* queue, its timer cleared and its promise resolved false.
SemForceRelease(s) ==
  [s EXCEPT !.acquired = FALSE,
            !.waitQueue = << >>,
            !.timers = @ \ Queued(s),
            !.st = [c \in Callers |->
                      IF c \in Queued(s) /\ s.st[c] = "waiting"
                        THEN "refused" ELSE s.st[c]],
            !.resolves = [c \in Callers |->
                            IF c \in Queued(s) /\ s.st[c] = "waiting"
                              THEN s.resolves[c] + 1 ELSE s.resolves[c]]]

\* release() called while the guard is not acquired.
GuardRelease ==
  /\ ~sem.acquired
  /\ sem.warnings < GuardMaxWarnings
  /\ sem' = [SemRelease(sem) EXCEPT !.warnings = @ + 1]
  /\ UNCHANGED <<daemonVars, gate, call, lock, life, store, once, manager, usage>>

\* forceRelease() called, whoever holds the guard.
GuardForceRelease ==
  /\ sem.forces < GuardMaxForces
  /\ sem' = [SemForceRelease(sem) EXCEPT !.forces = @ + 1]
  /\ UNCHANGED <<daemonVars, gate, call, lock, life, store, once, manager, usage>>

----------------------------------------------------------------------------
\* FileProcessManager.

\* The content of the pid file, by what parseInt and process.kill make of
\* it: "empty" (a file created and not yet written) and "garbage" parse to
\* NaN; "zero" parses to 0, which process.kill(0, 0) accepts; "dead" is the
\* pid of no process (ESRCH); "eperm" is the pid of a process of another
\* user (EPERM); "proc" is the pid of one of the modelled processes.

Procs == 1..MaxProcs

Foreign(k) == [kind |-> k, pid |-> 0]

Pid(p) == [kind |-> "proc", pid |-> p]

\* The path with no file; a file with the process that created it (0: a
\* file found at the start).
NoFile == [exists |-> FALSE, by |-> 0, content |-> Foreign("empty")]

File(by, c) == [exists |-> TRUE, by |-> by, content |-> c]

FoundFiles == {File(0, Foreign(k)) : k \in {"garbage", "zero", "dead", "eperm"}}

\* !isNaN(parseInt(existingPid.trim(), 10))
ParsesToNumber(c) == c.kind \notin {"empty", "garbage"}

\* process.kill(pid, 0) on the parsed content, with pc the process table.
KillResult(c, pc) ==
  CASE c.kind = "proc" -> (IF pc[c.pid] = "dead" THEN "ESRCH" ELSE "ok")
    [] c.kind = "zero" -> "ok"
    [] c.kind = "eperm" -> "EPERM"
    [] OTHER -> "ESRCH"

\* Mutant: a denied probe counts as not running.
isProcessRunning_EpermNotRunning(c, pc) == KillResult(c, pc) = "ok"

isProcessRunning(c, pc) == KillResult(c, pc) \in {"ok", "EPERM"}

\*   pc[p]: "idle", "probe" (readFile resolved), "unlink", "create",
\*   "write" (the file is open, created, still empty), "held" (acquireLock
\*   returned true), "refused" (returned false), "dead".
\*   seen[p]: what p's readFile found.  solo[p]: no other process has taken
\*   a step since p's call began.
LockStart(f) ==
  [file |-> f,
   pc |-> [p \in Procs |-> "idle"],
   seen |-> [p \in Procs |-> NoFile],
   solo |-> [p \in Procs |-> FALSE]]

LockIdle == LockStart(NoFile)

\* A step of p is a step between the steps of every other call.
Interleaved(l, p) == [l EXCEPT !.solo = [q \in Procs |-> q = p /\ l.solo[p]]]

\* acquireLock begins: fs.readFile resolves with the content, or rejects
\* with ENOENT, which the inner catch swallows.
AcquireRead(p) ==
  /\ lock.pc[p] \in {"idle", "refused"}
  /\ lock' = [lock EXCEPT !.pc[p] = IF lock.file.exists THEN "probe"
                                                        ELSE "create",
                          !.seen[p] = lock.file,
                          !.solo = [q \in Procs |-> q = p]]
  /\ UNCHANGED <<daemonVars, gate, call, sem, life, store, once, manager, usage>>

\* parseInt and the liveness probe: false when the record names a running
\* process, otherwise on to the unlink.
AcquireProbe(p) ==
  /\ lock.pc[p] = "probe"
  /\ LET c == lock.seen[p].content
         running == ParsesToNumber(c) /\ isProcessRunning(c, lock.pc)
     IN  lock' = [Interleaved(lock, p) EXCEPT
                    !.pc[p] = IF running THEN "refused" ELSE "unlink"]
  /\ UNCHANGED <<daemonVars, gate, call, sem, life, store, once, manager, usage>>

\* fs.unlink(pidFile) removes whatever file is at the path; ENOENT is
\* swallowed by the inner catch.
AcquireUnlink(p) ==
  /\ lock.pc[p] = "unlink"
  /\ lock' = [Interleaved(lock, p) EXCEPT !.pc[p] = "create",
                                          !.file = NoFile]
  /\ UNCHANGED <<daemonVars, gate, call, sem, life, store, once, manager, usage>>

\* fs.writeFile(..., { flag: 'wx' }) opens the file: EEXIST (acquireLock
\* returns false from the outer catch) or a new, empty file.
AcquireCreate(p) ==
  /\ lock.pc[p] = "create"
  /\ lock' = IF lock.file.exists
               THEN [Interleaved(lock, p) EXCEPT !.pc[p] = "refused"]
               ELSE [Interleaved(lock, p) EXCEPT
                       !.pc[p] = "write",
                       !.file = File(p, Foreign("empty"))]
  /\ UNCHANGED <<daemonVars, gate, call, sem, life, store, once, manager, usage>>

\* writeFile writes the pid into the file it opened (which may no longer
\* be the file at the path) and acquireLock returns true.
AcquireWrite(p) ==
  /\ lock.pc[p] = "write"
  /\ lock' = [Interleaved(lock, p) EXCEPT
                !.pc[p] = "held",
                !.file = IF @.exists /\ @.by = p THEN File(p, Pid(p)) ELSE @]
  /\ UNCHANGED <<daemonVars, gate, call, sem, life, store, once, manager, usage>>

\* releaseLock: fs.unlink(pidFile), whatever the file holds; a failure is
\* logged as a warning.
ReleaseLock(p) ==
  /\ lock.pc[p] = "held"
  /\ lock' = [Interleaved(lock, p) EXCEPT !.pc[p] = "idle",
                                          !.file = NoFile]
  /\ UNCHANGED <<daemonVars, gate, call, sem, life, store, once, manager, usage>>

\* A process ends without releasing; its locals go with it.
ProcessDies(p) ==
  /\ lock.pc[p] # "dead"
  /\ lock' = [Interleaved(lock, p) EXCEPT !.pc[p] = "dead",
                                          !.seen[p] = NoFile,
                                          !.solo[p] = FALSE]
  /\ UNCHANGED <<daemonVars, gate, call, sem, life, store, once, manager, usage>>

----------------------------------------------------------------------------
\* One FileProcessManager instance with several lock names, its calls run
\* one after the other, and for each name one other process that may take
\* the lock while it is free, release it, or die holding it.
\*   files[n]: "none", "mine" (this process's pid), "other" (the pid of
\*   the other process of name n).
\*   other[n]: the other process of name n is running.
\*   acquiredLocks: the names of this.acquiredLocks in insertion order.
\*   op: the call in progress: "idle", "acquire", "release", "cleanup";
\*   name, pc and seen are those of acquireLock / releaseLock; lockNames is
\*   cleanup's snapshot, todo what is left of its loop.
\*   last: the call that returned last and what it returned.

MaxNames == 3

Names == 1..MaxNames

NoCall == [op |-> "idle", name |-> 0, pc |-> "none", seen |-> "none",
           lockNames |-> << >>, todo |-> << >>]

NoReturn == [op |-> "none", name |-> 0, value |-> FALSE, threw |-> FALSE,
             alive |-> FALSE, missing |-> FALSE]

ManagerStart(f, o) ==
  [files |-> f,
   other |-> o,
   acquiredLocks |-> << >>,
   call |-> NoCall,
   last |-> NoReturn]

ManagerIdle ==
  ManagerStart([n \in Names |-> "none"], [n \in Names |-> FALSE])

SeqToSet(q) == {q[i] : i \in 1..Len(q)}

\* this.acquiredLocks.add(name)
SetAdd(q, n) == IF n \in SeqToSet(q) THEN q ELSE Append(q, n)

\* this.acquiredLocks.delete(name)
SetDelete(q, n) == SelectSeq(q, LAMBDA x : x # n)

\* acquireLock(name) begins: fs.readFile resolves with the content, or
\* rejects with ENOENT, which the inner catch swallows.
ManagerAcquireRead(n) ==
  /\ manager.call.op = "idle"
  /\ manager' = [manager EXCEPT
                   !.call = [NoCall EXCEPT
                               !.op = "acquire", !.name = n,
                               !.seen = manager.files[n],
                               !.pc = IF manager.files[n] = "none"
                                        THEN "create" ELSE "probe"]]
  /\ UNCHANGED <<daemonVars, gate, call, sem, lock, life, store, once, usage>>

\* !isNaN(pid) && this.isProcessRunning(pid) on what was read.
RecordedAlive(m) ==
  \/ m.call.seen = "mine"
  \/ m.call.seen = "other" /\ m.other[m.call.name]

\* Mutant: the record is unlinked before the liveness test.
ManagerAcquireProbe_UnlinksFirst ==
  /\ manager.call.op = "acquire"
  /\ manager.call.pc = "probe"
  /\ manager' =
       IF RecordedAlive(manager)
         THEN [manager EXCEPT
                 !.files[manager.call.name] = "none",
                 !.call = NoCall,
                 !.last = [NoReturn EXCEPT !.op = "acquire",
                                           !.name = manager.call.name,
                                           !.alive = TRUE]]
         ELSE [manager EXCEPT !.call.pc = "unlink"]
  /\ UNCHANGED <<daemonVars, gate, call, sem, lock, life, store, once, usage>>

\* The liveness test: acquireLock returns false when the recorded process
\* is running, otherwise it goes on to the unlink.
ManagerAcquireProbe ==
  /\ manager.call.op = "acquire"
  /\ manager.call.pc = "probe"
  /\ manager' =
       IF RecordedAlive(manager)
         THEN [manager EXCEPT
                 !.call = NoCall,
                 !.last = [NoReturn EXCEPT !.op = "acquire",
                                           !.name = manager.call.name,
                                           !.alive = TRUE]]
         ELSE [manager EXCEPT !.call.pc = "unlink"]
  /\ UNCHANGED <<daemonVars, gate, call, sem, lock, life, store, once, usage>>

\* fs.unlink(pidFile) of the stale record: whatever file is at the path is
\* removed; ENOENT is swallowed by the inner catch.
ManagerAcquireUnlink ==
  /\ manager.call.op = "acquire"
  /\ manager.call.pc = "unlink"
  /\ manager' = [manager EXCEPT !.files[manager.call.name] = "none",
                                !.call.pc = "create"]
  /\ UNCHANGED <<daemonVars, gate, call, sem, lock, life, store, once, usage>>

\* fs.writeFile(..., { flag: 'wx' }): EEXIST (false from the outer catch),
\* or the record with this pid, the name added to acquiredLocks, true.
ManagerAcquireCreate ==
  /\ manager.call.op = "acquire"
  /\ manager.call.pc = "create"
  /\ LET n == manager.call.name
     IN  manager' =
           IF manager.files[n] # "none"
             THEN [manager EXCEPT
                     !.call = NoCall,
                     !.last = [NoReturn EXCEPT !.op = "acquire", !.name = n]]
             ELSE [manager EXCEPT
                     !.files[n] = "mine",
                     !.acquiredLocks = SetAdd(@, n),
                     !.call = NoCall,
                     !.last = [NoReturn EXCEPT !.op = "acquire", !.name = n,
                                               !.value = TRUE]]
  /\ UNCHANGED <<daemonVars, gate, call, sem, lock, life, store, once, usage>>

\* Mutant: the name leaves acquiredLocks, the record stays.
Unlinked_KeepsRecord(m, n) ==
  [m EXCEPT !.acquiredLocks = SetDelete(@, n)]

\* The try block of releaseLock(name): fs.unlink removes the record and the
\* name leaves acquiredLocks; on ENOENT the catch logs a warning and the
\* name stays in acquiredLocks.
Unlinked(m, n) ==
  IF m.files[n] = "none" THEN m
  ELSE [m EXCEPT !.files[n] = "none",
                 !.acquiredLocks = SetDelete(@, n)]

\* releaseLock(name) called directly, up to its await of fs.unlink.
ManagerReleaseCall(n) ==
  /\ manager.call.op = "idle"
  /\ manager' = [manager EXCEPT
                   !.call = [NoCall EXCEPT !.op = "release", !.name = n,
                                           !.pc = "unlink"]]
  /\ UNCHANGED <<daemonVars, gate, call, sem, lock, life, store, once, usage>>

\* releaseLock after the unlink: it returns, whether the unlink succeeded
\* or the catch logged the warning.
ManagerReleaseUnlink ==
  /\ manager.call.op = "release"
  /\ LET n == manager.call.name
     IN  manager' = [Unlinked(manager, n) EXCEPT
                      !.call = NoCall,
                      !.last = [NoReturn EXCEPT
                                  !.op = "release", !.name = n,
                                  !.missing = manager.files[n] = "none"]]
  /\ UNCHANGED <<daemonVars, gate, call, sem, lock, life, store, once, usage>>

\* cleanup() up to the await of its first releaseLock, or to its end when
\* acquiredLocks is empty: lockNames = Array.from(this.acquiredLocks).
ManagerCleanupCall ==
  /\ manager.call.op = "idle"
  /\ manager' =
       IF manager.acquiredLocks = << >>
         THEN [manager EXCEPT !.last = [NoReturn EXCEPT !.op = "cleanup"]]
         ELSE [manager EXCEPT
                 !.call = [NoCall EXCEPT
                             !.op = "cleanup",
                             !.lockNames = manager.acquiredLocks,
                             !.todo = manager.acquiredLocks]]
  /\ UNCHANGED <<daemonVars, gate, call, sem, lock, life, store, once, usage>>

\* Mutant: cleanup releases the first lock only.
ManagerCleanupRelease_FirstOnly ==
  /\ manager.call.op = "cleanup"
  /\ manager' = [Unlinked(manager, Head(manager.call.todo)) EXCEPT
                   !.call = NoCall,
                   !.last = [NoReturn EXCEPT !.op = "cleanup"]]
  /\ UNCHANGED <<daemonVars, gate, call, sem, lock, life, store, once, usage>>

\* One round of cleanup's loop: the unlink of releaseLock(lockName)
\* resolves; then the next releaseLock is awaited, or cleanup returns.
ManagerCleanupRelease ==
  /\ manager.call.op = "cleanup"
  /\ LET n == Head(manager.call.todo)
         rest == Tail(manager.call.todo)
     IN  manager' =
           IF rest = << >>
             THEN [Unlinked(manager, n) EXCEPT
                     !.call = NoCall,
                     !.last = [NoReturn EXCEPT !.op = "cleanup"]]
             ELSE [Unlinked(manager, n) EXCEPT !.call.todo = rest]
  /\ UNCHANGED <<daemonVars, gate, call, sem, lock, life, store, once, usage>>

\* The other process of name n starts and takes the free lock.
OtherAcquires(n) ==
  /\ ~manager.other[n]
  /\ manager.files[n] = "none"
  /\ manager' = [manager EXCEPT !.files[n] = "other", !.other[n] = TRUE]
  /\ UNCHANGED <<daemonVars, gate, call, sem, lock, life, store, once, usage>>

\* The other process releases its lock and ends.
OtherReleases(n) ==
  /\ manager.other[n]
  /\ manager' = [manager EXCEPT
                   !.files[n] = IF @ = "other" THEN "none" ELSE @,
                   !.other[n] = FALSE]
  /\ UNCHANGED <<daemonVars, gate, call, sem, lock, life, store, once, usage>>

\* The other process dies; its record stays.
OtherDies(n) ==
  /\ manager.other[n]
  /\ manager' = [manager EXCEPT !.other[n] = FALSE]
  /\ UNCHANGED <<daemonVars, gate, call, sem, lock, life, store, once, usage>>

----------------------------------------------------------------------------
\* CCUsageRepository.fetchUsageData by what the command printed: the size
\* check, JSON.parse and the catch.  Sizes are in MiB; the output of
\* `ccusage --format json` is ASCII, so that result.length is its size.

\* MAX_DATA_SIZE = 10 * 1024 * 1024
MAX_DATA_SIZE == 10

MaxPayload == 11

MaxMonths == 2

PayloadSizes == 0..MaxPayload

PayloadForms == {"usage", "otherJson", "notJson"}

MonthlyCosts == UNION {[1..k -> Costs] : k \in 0..MaxMonths}

\* What the command printed: its size, whether it is the JSON of a
\* CCUsageData, other JSON or no JSON, and the fields of the CCUsageData.
Payloads ==
  [size : PayloadSizes, form : PayloadForms,
   monthly : MonthlyCosts, totalCost : Costs]

NoData == [monthly |-> << >>, totalCost |-> 0]

\* JSON.parse(result) as CCUsageData, and parsedData.monthly.length in the
\* debug log: a SyntaxError on text that is no JSON, a TypeError on JSON
\* without a monthly array.
ParseUsage(p) ==
  IF p.form = "notJson" THEN [threw |-> TRUE, data |-> NoData]
  ELSE IF p.form = "otherJson" THEN [threw |-> TRUE, data |-> NoData]
  ELSE [threw |-> FALSE,
        data |-> [monthly |-> p.monthly, totalCost |-> p.totalCost]]

\* Mutant: the size check is missing.
AfterExecute_NoSizeCheck(p, executed) ==
  IF executed = "threw"
    THEN [ok |-> FALSE, error |-> "commandFailed", data |-> NoData]
  ELSE IF executed = "ENOBUFS"
    THEN [ok |-> FALSE, error |-> "bufferExceeded", data |-> NoData]
  ELSE IF ParseUsage(p).threw
    THEN [ok |-> FALSE, error |-> "malformed", data |-> NoData]
  ELSE [ok |-> TRUE, error |-> "none", data |-> ParseUsage(p).data]

\* fetchUsageData after commandExecutor.execute settled: the command's
\* error, or the "Usage data too large" error, or the error of JSON.parse,
\* each rethrown by the catch as "CCUsage data fetch failed"; or the
\* parsed data.
AfterExecute(p, executed) ==
  IF executed = "threw"
    THEN [ok |-> FALSE, error |-> "commandFailed", data |-> NoData]
  ELSE IF executed = "ENOBUFS"
    THEN [ok |-> FALSE, error |-> "bufferExceeded", data |-> NoData]
  ELSE IF p.size > MAX_DATA_SIZE
    THEN [ok |-> FALSE, error |-> "tooLarge", data |-> NoData]
  ELSE IF ParseUsage(p).threw
    THEN [ok |-> FALSE, error |-> "malformed", data |-> NoData]
  ELSE [ok |-> TRUE, error |-> "none", data |-> ParseUsage(p).data]

\*   pc: "idle", "executing" (commandExecutor.execute is awaited),
\*   "settled" (fetchUsageData returned or threw).
UsageStart(p) ==
  [payload |-> p,
   pc |-> "idle",
   executed |-> "none",
   result |-> [ok |-> FALSE, error |-> "none", data |-> NoData]]

UsageIdle ==
  UsageStart([size |-> 0, form |-> "usage", monthly |-> << >>, totalCost |-> 0])

\* fetchUsageData up to `await this.commandExecutor.execute(...)`, the guard
\* acquired.
UsageExecute ==
  /\ usage.pc = "idle"
  /\ usage' = [usage EXCEPT !.pc = "executing"]
  /\ UNCHANGED <<daemonVars, gate, call, sem, lock, life, store, once, manager>>

\* execute settles: the command failed ("threw"); execSync gave up on an
\* output larger than maxBuffer ("ENOBUFS"), which an executor without that
\* limit returns whole; or the output is returned.
UsageSettle(executed) ==
  /\ usage.pc = "executing"
  /\ executed = "ENOBUFS" => usage.payload.size > MAX_DATA_SIZE
  /\ usage' = [usage EXCEPT !.pc = "settled",
                            !.executed = executed,
                            !.result = AfterExecute(usage.payload, executed)]
  /\ UNCHANGED <<daemonVars, gate, call, sem, lock, life, store, once, manager>>

----------------------------------------------------------------------------
\* DaemonCommand's life cycle, with the check cycles reduced to their
\* awaits: a cycle waits for the execution semaphore ("wait"), runs the
\* command holding it ("fetch"), awaits the sink ("deliver"), and its caller
\* awaits the state save ("save").
\*   phase: "idle", "locking" (execute awaits acquireLock), "first" (the
\*   first check is in flight), "periodic" (execute awaits the promise of
\*   startPeriodicChecks), "stopping" (the interval callback awaits
\*   cleanup), "returned" (execute returned success), "failed" (execute
\*   returned failure), "exited" (process.exit was called).
\*   cleanups[w]: the cleanup() called by w is at its await of
\*   processManager.cleanup(): "none", "empty" (no lock was recorded when it
\*   was called) or "lock" (it is releasing the lock).

CleanupCallers == {"force", "signal", "tick"}

LifeIdle ==
  [phase |-> "idle",
   isShuttingDown |-> FALSE,
   intervalId |-> FALSE,
   lockHeld |-> FALSE,
   loaded |-> FALSE,
   handlers |-> FALSE,
   wait |-> 0, fetch |-> 0, deliver |-> 0, save |-> 0,
   cleanups |-> [w \in CleanupCallers |-> "none"],
   cleaned |-> FALSE,
   started |-> 0,
   ticks |-> 0,
   sinkCalled |-> FALSE,
   saved |-> FALSE,
   requests |-> 0,
   requestAt |-> "none",
   requestCleanups |-> 0,
   firstForce |-> "none",
   forceTrue |-> 0,
   exits |-> 0]

LifeInFlight(l) == l.wait + l.fetch + l.deliver + l.save

\* checkUsageCommand.execute is called: it runs up to the acquire of the
\* execution semaphore, granted at once when no call holds it.
LifeNewCycle(l) ==
  IF l.fetch = 0
    THEN [l EXCEPT !.fetch = 1, !.started = @ + 1]
    ELSE [l EXCEPT !.wait = @ + 1, !.started = @ + 1]

\* The caller is done with a check: after the first check execute goes on
\* to startPeriodicChecks, which arms the interval timer.
LifeCheckDone(l) ==
  IF l.phase = "first"
    THEN [l EXCEPT !.phase = "periodic", !.intervalId = TRUE]
    ELSE l

\* cleanup() called by w, up to its await: the interval timer is cleared,
\* processManager.cleanup() takes the locks recorded now and starts
\* releasing them.
LifeCleanup(l, w) ==
  [l EXCEPT !.intervalId = FALSE,
            !.cleanups[w] = IF l.lockHeld THEN "lock" ELSE "empty"]

\* execute is called: safeExecute, then the await of acquireLock.
LifeExecute ==
  /\ life.phase = "idle"
  /\ life' = [life EXCEPT !.phase = "locking"]
  /\ UNCHANGED <<daemonVars, gate, call, sem, lock, store, once, manager, usage>>

\* Mutant: the state is loaded and the handlers are installed before the
\* result of acquireLock is tested.
LifeLockDone_TestsLockLate(lockAcquired) ==
  /\ life.phase = "locking"
  /\ life' = IF lockAcquired
               THEN LifeNewCycle([life EXCEPT !.phase = "first",
                                              !.lockHeld = TRUE,
                                              !.loaded = TRUE,
                                              !.handlers = TRUE])
               ELSE [life EXCEPT !.phase = "failed",
                                 !.loaded = TRUE,
                                 !.handlers = TRUE]
  /\ UNCHANGED <<daemonVars, gate, call, sem, lock, store, once, manager, usage>>

\* execute resumes after acquireLock: the failure result when the lock was
\* refused; otherwise the load, the signal handlers and the first check.
LifeLockDone(lockAcquired) ==
  /\ life.phase = "locking"
  /\ life' = IF lockAcquired
               THEN LifeNewCycle([life EXCEPT !.phase = "first",
                                              !.lockHeld = TRUE,
                                              !.loaded = TRUE,
                                              !.handlers = TRUE])
               ELSE [life EXCEPT !.phase = "failed"]
  /\ UNCHANGED <<daemonVars, gate, call, sem, lock, store, once, manager, usage>>

\* Mutant: a tick that finds a check in flight starts none.
LifeTick_SkipsWhenBusy ==
  /\ life.phase = "periodic"
  /\ life.intervalId
  /\ IF life.isShuttingDown
       THEN life' = [LifeCleanup(life, "tick") EXCEPT !.phase = "stopping"]
       ELSE /\ life.started < LifeMaxCycles
            /\ life' = IF LifeInFlight(life) > 0
                         THEN [life EXCEPT !.ticks = @ + 1]
                         ELSE LifeNewCycle([life EXCEPT !.ticks = @ + 1])
  /\ UNCHANGED <<daemonVars, gate, call, sem, lock, store, once, manager, usage>>

\* Mutant: the callback starts a check whatever isShuttingDown says.
LifeTick_IgnoresFlag ==
  /\ life.phase = "periodic"
  /\ life.intervalId
  /\ life.started < LifeMaxCycles
  /\ life' = LifeNewCycle([life EXCEPT !.ticks = @ + 1])
  /\ UNCHANGED <<daemonVars, gate, call, sem, lock, store, once, manager, usage>>

\* The setInterval callback up to its first await: cleanup when shutting
\* down, otherwise a new check, whether or not an earlier one is in flight.
LifeTick ==
  /\ life.phase = "periodic"
  /\ life.intervalId
  /\ IF life.isShuttingDown
       THEN life' = [LifeCleanup(life, "tick") EXCEPT !.phase = "stopping"]
       ELSE /\ life.started < LifeMaxCycles
            /\ life' = LifeNewCycle([life EXCEPT !.ticks = @ + 1])
  /\ UNCHANGED <<daemonVars, gate, call, sem, lock, store, once, manager, usage>>

\* The command of the call holding the semaphore ends: the semaphore goes
\* to the oldest waiting call; the cycle fails, awaits the sink, or returns
\* without sending and its caller awaits the save.
LifeFetchDone(out) ==
  /\ life.phase \in {"first", "periodic", "stopping", "returned"}
  /\ life.fetch = 1
  /\ LET l == IF life.wait > 0 THEN [life EXCEPT !.wait = @ - 1]
                               ELSE [life EXCEPT !.fetch = 0]
     IN  life' = CASE out = "fail" -> LifeCheckDone(l)
                   [] out = "send" -> [l EXCEPT !.deliver = @ + 1,
                                                !.sinkCalled = TRUE]
                   [] OTHER -> [l EXCEPT !.save = @ + 1]
  /\ UNCHANGED <<daemonVars, gate, call, sem, lock, store, once, manager, usage>>

\* The acquire of a waiting call times out: its cycle fails.
LifeGuardTimeout ==
  /\ life.phase \in {"first", "periodic", "stopping", "returned"}
  /\ life.wait > 0
  /\ life' = LifeCheckDone([life EXCEPT !.wait = @ - 1])
  /\ UNCHANGED <<daemonVars, gate, call, sem, lock, store, once, manager, usage>>

\* notificationService.send resolves or rejects.
LifeSendDone(ok) ==
  /\ life.phase \in {"first", "periodic", "stopping", "returned"}
  /\ life.deliver > 0
  /\ life' = IF ok
               THEN [life EXCEPT !.deliver = @ - 1, !.save = @ + 1]
               ELSE LifeCheckDone([life EXCEPT !.deliver = @ - 1])
  /\ UNCHANGED <<daemonVars, gate, call, sem, lock, store, once, manager, usage>>

\* The caller resumes after stateRepository.save.
LifeSaveDone ==
  /\ life.phase \in {"first", "periodic", "stopping", "returned"}
  /\ life.save > 0
  /\ life' = LifeCheckDone([life EXCEPT !.save = @ - 1, !.saved = TRUE])
  /\ UNCHANGED <<daemonVars, gate, call, sem, lock, store, once, manager, usage>>

\* forceShutdown(): false when already shutting down; otherwise the flag,
\* cleanup() started and not awaited, true.
LifeForceShutdown ==
  /\ life.phase \in {"locking", "first", "periodic", "stopping"}
  /\ life.requests < LifeMaxRequests
  /\ life' = IF life.isShuttingDown
               THEN [life EXCEPT
                       !.requests = @ + 1,
                       !.firstForce = IF @ = "none" THEN "false" ELSE @]
               ELSE [LifeCleanup(life, "force") EXCEPT
                       !.isShuttingDown = TRUE,
                       !.requests = @ + 1,
                       !.requestAt = life.phase,
                       !.requestCleanups = @ + 1,
                       !.firstForce = IF @ = "none" THEN "true" ELSE @,
                       !.forceTrue = @ + 1]
  /\ UNCHANGED <<daemonVars, gate, call, sem, lock, store, once, manager, usage>>

\* Mutant: the handler does not test isShuttingDown.
LifeSignal_NoFlagTest ==
  /\ life.handlers
  /\ life.phase \in {"first", "periodic", "stopping"}
  /\ life.requests < LifeMaxRequests
  /\ life' = [LifeCleanup(life, "signal") EXCEPT
                !.isShuttingDown = TRUE,
                !.requests = @ + 1,
                !.requestAt = IF @ = "none" THEN life.phase ELSE @,
                !.requestCleanups = @ + 1]
  /\ UNCHANGED <<daemonVars, gate, call, sem, lock, store, once, manager, usage>>

\* The SIGINT/SIGTERM handler up to `await this.cleanup()`: nothing when
\* already shutting down.
LifeSignal ==
  /\ life.handlers
  /\ life.phase \in {"first", "periodic", "stopping"}
  /\ life.requests < LifeMaxRequests
  /\ life' = IF life.isShuttingDown
               THEN [life EXCEPT !.requests = @ + 1]
               ELSE [LifeCleanup(life, "signal") EXCEPT
                       !.isShuttingDown = TRUE,
                       !.requests = @ + 1,
                       !.requestAt = life.phase,
                       !.requestCleanups = @ + 1]
  /\ UNCHANGED <<daemonVars, gate, call, sem, lock, store, once, manager, usage>>

\* processManager.cleanup() of caller w resolves: the lock it took is
\* released.  The interval callback then resolves the promise execute
\* awaits; the signal handler calls process.exit(0), which ends everything
\* in flight.
LifeCleanupDone(w) ==
  /\ life.phase \in {"locking", "first", "periodic", "stopping", "returned",
                     "failed"}
  /\ life.cleanups[w] # "none"
  /\ LET l == [life EXCEPT
                 !.cleanups[w] = "none",
                 !.cleaned = TRUE,
                 !.lockHeld = IF life.cleanups[w] = "lock" THEN FALSE ELSE @]
     IN  life' = CASE w = "tick" -> [l EXCEPT !.phase = "returned"]
                   [] w = "signal" ->
                        [l EXCEPT !.phase = "exited",
                                  !.exits = @ + 1,
                                  !.wait = 0, !.fetch = 0,
                                  !.deliver = 0, !.save = 0,
                                  !.cleanups = [x \in CleanupCallers |-> "none"]]
                   [] OTHER -> l
  /\ UNCHANGED <<daemonVars, gate, call, sem, lock, store, once, manager, usage>>

----------------------------------------------------------------------------
\* FileStateRepository on its own: the state file as text, written by
\* writeFileSync and read by readFileSync + JSON.parse.

StoreMaxDay == 1

\* The states a cycle can hand to save(): each date absent (0) or a day.
StoreStates == [lastNotificationDate : 0..StoreMaxDay,
                lastExceedanceDate : 0..StoreMaxDay]

FieldNames == {"lastNotificationDate", "lastExceedanceDate"}

Token(k, v) == [key |-> k, value |-> v]

\* Mutant: the text loses the lastExceedanceDate member.
JSONStringify_DropsExceedance(state) ==
  <<Token("{", 0)>>
    \o (IF state.lastNotificationDate # 0
          THEN <<Token("lastNotificationDate", state.lastNotificationDate)>>
          ELSE <<>>)
    \o <<Token("}", 0)>>

\* JSON.stringify(state, null, 2): an opening brace, one member per defined
\* property (an undefined property is left out), a closing brace.
JSONStringify(state) ==
  <<Token("{", 0)>>
    \o (IF state.lastNotificationDate # 0
          THEN <<Token("lastNotificationDate", state.lastNotificationDate)>>
          ELSE <<>>)
    \o (IF state.lastExceedanceDate # 0
          THEN <<Token("lastExceedanceDate", state.lastExceedanceDate)>>
          ELSE <<>>)
    \o <<Token("}", 0)>>

\* The text is one complete JSON object.
WellFormed(text) ==
  /\ Len(text) >= 2
  /\ text[1].key = "{"
  /\ text[Len(text)].key = "}"
  /\ \A i \in 2..(Len(text) - 1) : text[i].key \in FieldNames
  /\ \A i, j \in 2..(Len(text) - 1) : text[i].key = text[j].key => i = j

Member(text, k) ==
  IF \E i \in 2..(Len(text) - 1) : text[i].key = k
    THEN text[CHOOSE i \in 2..(Len(text) - 1) : text[i].key = k].value
    ELSE 0

\* JSON.parse(data) as DaemonState: throws a SyntaxError on a text that is
\* not complete JSON; a member that is not in the text is undefined.
JSONParse(text) ==
  IF WellFormed(text)
    THEN [threw |-> FALSE,
          state |-> [lastNotificationDate |-> Member(text, "lastNotificationDate"),
                     lastExceedanceDate |-> Member(text, "lastExceedanceDate")]]
    ELSE [threw |-> TRUE, state |-> EmptyState]

NoFileYet == [exists |-> FALSE, text |-> <<>>]

FileWith(text) == [exists |-> TRUE, text |-> text]

\* A file that something else than save() wrote.
Garbage == FileWith(<<Token("garbage", 0)>>)

\* load(): {} when the file does not exist; the parsed text; {} when
\* reading or parsing throws (the error is logged).
FileLoad(file) ==
  IF ~file.exists THEN [threw |-> FALSE, state |-> EmptyState]
  ELSE LET parsed == JSONParse(file.text)
       IN  IF parsed.threw
             THEN [threw |-> FALSE, state |-> EmptyState]
             ELSE parsed

\*   file:     the state file.
\*   writer:   the save() in progress: "idle", or "writing" between the
\*             open that truncates the file and the last write; data is the
\*             text being written.
\*   previous: the file when the most recent save() began.
\*   next:     the complete file the most recent save() was to produce.
\*   last:     the argument of the most recent save() whose write completed.
\*   saved:    a save() has completed since the start.
\*   read:     the most recent load() since save() was last called: the file
\*             it found, the last completed save() at that moment, and what
\*             it returned.
NoSave == [some |-> FALSE, state |-> EmptyState]

NoRead == [done |-> FALSE, observed |-> NoFileYet, last |-> NoSave,
           saved |-> FALSE,
           result |-> [threw |-> FALSE, state |-> EmptyState]]

StoreStart(f, l) ==
  [file |-> f,
   writer |-> [pc |-> "idle", data |-> <<>>],
   previous |-> f,
   next |-> f,
   last |-> l,
   saved |-> FALSE,
   read |-> NoRead]

StoreIdle == StoreStart(NoFileYet, NoSave)

\* save(state): JSON.stringify, then writeFileSync opens the file for
\* writing, which truncates it.  When the open fails (no permission) the file
\* is as it was, the error is logged and swallowed.
StoreSaveOpen(state, openOk) ==
  /\ store.writer.pc = "idle"
  /\ store' = IF openOk
                THEN [store EXCEPT !.file = FileWith(<<>>),
                                   !.writer = [pc |-> "writing",
                                               data |-> JSONStringify(state)],
                                   !.previous = store.file,
                                   !.next = FileWith(JSONStringify(state)),
                                   !.read = NoRead]
                ELSE [store EXCEPT !.previous = store.file,
                                   !.next = FileWith(JSONStringify(state)),
                                   !.read = NoRead]
  /\ UNCHANGED <<daemonVars, gate, call, sem, lock, life, once, manager, usage>>

\* writeFileSync's write loop: each write appends the next n tokens of the
\* text; a write that fails (disk full) ends save() with the file as far as
\* it got, the error logged and swallowed.  The write of the last token
\* completes the save.
StoreSaveWrite(n, writeOk) ==
  /\ store.writer.pc = "writing"
  /\ LET have == Len(store.file.text)
         data == store.writer.data
     IN  /\ n \in 1..(Len(data) - have)
         /\ store' =
              IF ~writeOk
                THEN [store EXCEPT !.writer = [pc |-> "idle", data |-> <<>>]]
              ELSE IF have + n = Len(data)
                THEN [store EXCEPT
                        !.file = FileWith(data),
                        !.writer = [pc |-> "idle", data |-> <<>>],
                        !.last = [some |-> TRUE, state |-> JSONParse(data).state],
                        !.saved = TRUE]
              ELSE [store EXCEPT
                      !.file = FileWith(SubSeq(data, 1, have + n))]
  /\ UNCHANGED <<daemonVars, gate, call, sem, lock, life, once, manager, usage>>

\* The process dies during save(); the next one starts with the file as the
\* dead one left it.
StoreCrash ==
  /\ store.writer.pc = "writing"
  /\ store' = [store EXCEPT !.writer = [pc |-> "idle", data |-> <<>>]]
  /\ UNCHANGED <<daemonVars, gate, call, sem, lock, life, once, manager, usage>>

\* load(), by the process itself, by the one started after a crash, or by
\* another process (single-shot mode reads the daemon's state file).
StoreLoad ==
  /\ store' = [store EXCEPT
                 !.read = [done |-> TRUE,
                           observed |-> store.file,
                           last |-> store.last,
                           saved |-> store.saved,
                           result |-> FileLoad(store.file)]]
  /\ UNCHANGED <<daemonVars, gate, call, sem, lock, life, once, manager, usage>>

----------------------------------------------------------------------------
\* Application.runOnceMode.

\* One process per run: load, checkUsageCommand.execute, save.
\*   pc: "idle" (no run in progress), "running" (execute is awaited).
\*   res[i]: what run i ended with: the day of its decision, exceeded,
\*   notificationSent, and whether it failed.

OnceRuns == 1..OnceMaxRuns

NoResult == [day |-> 0, exceeded |-> FALSE, sent |-> FALSE, failed |-> FALSE]

OnceStart(f) ==
  [today |-> 1,
   file |-> f,
   first |-> f,
   run |-> 0,
   pc |-> "idle",
   r |-> NewCycle(EmptyState),
   res |-> [i \in OnceRuns |-> NoResult]]

OnceIdle == OnceStart(NoRecord)

OnceConfig == [threshold |-> MaxCost - 1, slackWebhookUrl |-> TRUE]

\* runOnceMode up to the await of checkUsageCommand.execute.
OnceBegin ==
  /\ once.pc = "idle"
  /\ once.run < OnceMaxRuns
  /\ once' = [once EXCEPT !.run = @ + 1,
                          !.pc = "running",
                          !.r = NewCycle(Load(once.file))]
  /\ UNCHANGED <<daemonVars, gate, call, sem, lock, life, store, manager, usage>>

OnceFetchDone(out) ==
  /\ once.pc = "running"
  /\ once.r.pc = "fetch"
  /\ once' = [once EXCEPT !.r = AfterFetch(once.r, out, OnceConfig, once.today)]
  /\ UNCHANGED <<daemonVars, gate, call, sem, lock, life, store, manager, usage>>

OnceSendDone(ok, tick) ==
  /\ once.pc = "running"
  /\ once.r.pc = "send"
  /\ tick => (ok /\ once.today < OnceMaxDay)
  /\ LET nd == once.today
         ed == IF tick THEN once.today + 1 ELSE once.today
     IN  once' = [once EXCEPT !.r = AfterSend(once.r, ok, nd, ed),
                              !.today = IF ok THEN ed ELSE @]
  /\ UNCHANGED <<daemonVars, gate, call, sem, lock, life, store, manager, usage>>

\* runOnceMode after execute returned success: stateRepository.save with
\* the new state (a write error is swallowed), the log line, the end of the
\* process.
OnceReturn(writeOk) ==
  /\ once.pc = "running"
  /\ once.r.pc = "returned"
  /\ once' = [once EXCEPT
                !.pc = "idle",
                !.file = Save(once.file, once.r.newState, writeOk),
                !.res[once.run] = [day |-> once.r.decidedDay,
                                   exceeded |-> once.r.thresholdExceeded,
                                   sent |-> once.r.notificationSent,
                                   failed |-> FALSE]]
  /\ UNCHANGED <<daemonVars, gate, call, sem, lock, life, store, manager, usage>>

\* runOnceMode after execute returned failure: it throws, run() logs and
\* calls process.exit(1); nothing is saved.
OnceFailure ==
  /\ once.pc = "running"
  /\ once.r.pc = "failed"
  /\ once' = [once EXCEPT !.pc = "idle",
                          !.res[once.run] = [NoResult EXCEPT !.failed = TRUE]]
  /\ UNCHANGED <<daemonVars, gate, call, sem, lock, life, store, manager, usage>>

\* Midnight, during a run or between two runs.
OnceClockTick ==
  /\ once.today < OnceMaxDay
  /\ once' = [once EXCEPT !.today = @ + 1]
  /\ UNCHANGED <<daemonVars, gate, call, sem, lock, life, store, manager, usage>>

----------------------------------------------------------------------------
\* Specifications.

DaemonInit ==
  /\ today = 1
  /\ phase = "idle"
  /\ isShuttingDown = FALSE
  /\ intervalId = FALSE
  /\ exitPending = FALSE
  /\ currentState = EmptyState
  /\ loopState = EmptyState
  /\ loaded = EmptyState
  /\ checkCount = 0
  /\ started = 0
  /\ cyc = EmptyBag
  /\ deliveredInst = [d \in Days |-> 0]
  /\ deliveredPrev = [d \in Days |-> FALSE]

Init ==
  /\ DaemonInit
  /\ config \in [threshold : Thresholds, slackWebhookUrl : BOOLEAN]
  /\ stored \in {NoRecord, CorruptRecord} \cup {Record(s) : s \in WrittenStates}
  /\ gate = GateIdle
  /\ call = CallIdle
  /\ sem = SemIdle
  /\ lock = LockIdle
  /\ life = LifeIdle
  /\ store = StoreIdle
  /\ once = OnceIdle
  /\ manager = ManagerIdle
  /\ usage = UsageIdle

Next ==
  \/ \E lockOk \in BOOLEAN : Start(lockOk)
  \/ Tick
  \/ FetchDoneStep
  \/ SendDoneStep
  \/ ReturnStep
  \/ ReturnFailureStep
  \/ SaveDoneStep
  \/ ForceShutdown
  \/ Signal
  \/ Exit
  \/ Crash
  \/ Restart
  \/ ClockTick

Spec == Init /\ [][Next]_vars

GateInit ==
  /\ DaemonInit
  /\ config = [threshold |-> 1, slackWebhookUrl |-> TRUE]
  /\ stored = NoRecord
  /\ gate \in GateInputs
  /\ call = CallIdle
  /\ sem = SemIdle
  /\ lock = LockIdle
  /\ life = LifeIdle
  /\ store = StoreIdle
  /\ once = OnceIdle
  /\ manager = ManagerIdle
  /\ usage = UsageIdle

GateStep == GateApply \/ GateNext

SpecGate == GateInit /\ [][GateStep]_vars

CallInit ==
  /\ DaemonInit
  /\ config = [threshold |-> 1, slackWebhookUrl |-> TRUE]
  /\ stored = NoRecord
  /\ gate = GateIdle
  /\ call \in CallInputs
  /\ sem = SemIdle
  /\ lock = LockIdle
  /\ life = LifeIdle
  /\ store = StoreIdle
  /\ once = OnceIdle
  /\ manager = ManagerIdle
  /\ usage = UsageIdle

CallStep ==
  \/ \E out \in FetchOutcomes : CallFetchDone(out)
  \/ \E ok \in BOOLEAN, tick \in BOOLEAN : CallSendDone(ok, tick)
  \/ CallClockTick
  \/ CallNext

SpecCall == CallInit /\ [][CallStep]_vars

SemInit ==
  /\ DaemonInit
  /\ config = [threshold |-> 1, slackWebhookUrl |-> TRUE]
  /\ stored = NoRecord
  /\ gate = GateIdle
  /\ call = CallIdle
  /\ sem = SemIdle
  /\ lock = LockIdle
  /\ life = LifeIdle
  /\ store = StoreIdle
  /\ once = OnceIdle
  /\ manager = ManagerIdle
  /\ usage = UsageIdle

SemStep ==
  \/ \E c \in Callers : FetchStart(c)
  \/ \E c \in Callers : FetchTimer(c)
  \/ \E c \in Callers : FetchAcquired(c)
  \/ \E c \in Callers : FetchRefused(c)
  \/ \E c \in Callers, out \in FetchResults : FetchFinish(c, out)

SpecSem == SemInit /\ [][SemStep]_vars

\* The guard with its whole interface in use.
GuardStep ==
  \/ SemStep
  \/ GuardRelease
  \/ GuardForceRelease

SpecGuard == SemInit /\ [][GuardStep]_vars

LockInit ==
  /\ DaemonInit
  /\ config = [threshold |-> 1, slackWebhookUrl |-> TRUE]
  /\ stored = NoRecord
  /\ gate = GateIdle
  /\ call = CallIdle
  /\ sem = SemIdle
  /\ lock \in {LockStart(f) : f \in {NoFile} \cup FoundFiles}
  /\ life = LifeIdle
  /\ store = StoreIdle
  /\ once = OnceIdle
  /\ manager = ManagerIdle
  /\ usage = UsageIdle

LockStep ==
  \/ \E p \in Procs : AcquireRead(p)
  \/ \E p \in Procs : AcquireProbe(p)
  \/ \E p \in Procs : AcquireUnlink(p)
  \/ \E p \in Procs : AcquireCreate(p)
  \/ \E p \in Procs : AcquireWrite(p)
  \/ \E p \in Procs : ReleaseLock(p)
  \/ \E p \in Procs : ProcessDies(p)

SpecLock == LockInit /\ [][LockStep]_vars

LifeInit ==
  /\ DaemonInit
  /\ config = [threshold |-> 1, slackWebhookUrl |-> TRUE]
  /\ stored = NoRecord
  /\ gate = GateIdle
  /\ call = CallIdle
  /\ sem = SemIdle
  /\ lock = LockIdle
  /\ life = LifeIdle
  /\ store = StoreIdle
  /\ once = OnceIdle
  /\ manager = ManagerIdle
  /\ usage = UsageIdle

LifeProgress ==
  \/ LifeExecute
  \/ \E lockAcquired \in BOOLEAN : LifeLockDone(lockAcquired)
  \/ LifeTick
  \/ \E out \in {"fail", "send", "quiet"} : LifeFetchDone(out)
  \/ LifeGuardTimeout
  \/ \E ok \in BOOLEAN : LifeSendDone(ok)
  \/ LifeSaveDone
  \/ \E w \in CleanupCallers : LifeCleanupDone(w)

LifeStep ==
  \/ LifeProgress
  \/ LifeForceShutdown
  \/ LifeSignal

SpecLife == LifeInit /\ [][LifeStep]_vars

OnceInit ==
  /\ DaemonInit
  /\ config = [threshold |-> 1, slackWebhookUrl |-> TRUE]
  /\ stored = NoRecord
  /\ gate = GateIdle
  /\ call = CallIdle
  /\ sem = SemIdle
  /\ lock = LockIdle
  /\ life = LifeIdle
  /\ store = StoreIdle
  /\ once \in {OnceStart(f) :
                 f \in {NoRecord, CorruptRecord}
                         \cup {Record(s) : s \in WrittenStates}}
  /\ manager = ManagerIdle
  /\ usage = UsageIdle

OnceStep ==
  \/ OnceBegin
  \/ \E out \in FetchOutcomes : OnceFetchDone(out)
  \/ \E ok \in BOOLEAN, tick \in BOOLEAN : OnceSendDone(ok, tick)
  \/ \E writeOk \in BOOLEAN : OnceReturn(writeOk)
  \/ OnceFailure
  \/ OnceClockTick

SpecOnce == OnceInit /\ [][OnceStep]_vars

\* The state file when the program starts: absent, not written by save(),
\* or left by an earlier save().
StoreInit ==
  /\ DaemonInit
  /\ config = [threshold |-> 1, slackWebhookUrl |-> TRUE]
  /\ stored = NoRecord
  /\ gate = GateIdle
  /\ call = CallIdle
  /\ sem = SemIdle
  /\ lock = LockIdle
  /\ life = LifeIdle
  /\ once = OnceIdle
  /\ manager = ManagerIdle
  /\ usage = UsageIdle
  /\ store \in {StoreStart(NoFileYet, NoSave), StoreStart(Garbage, NoSave)}
                 \cup {StoreStart(FileWith(JSONStringify(s)),
                                  [some |-> TRUE, state |-> s]) :
                         s \in StoreStates}

StoreStep ==
  \/ \E s \in StoreStates, openOk \in BOOLEAN : StoreSaveOpen(s, openOk)
  \/ \E n \in 1..(2 + Cardinality(FieldNames)), writeOk \in BOOLEAN :
       StoreSaveWrite(n, writeOk)
  \/ StoreCrash
  \/ StoreLoad

SpecStore == StoreInit /\ [][StoreStep]_vars

\* The lock records found at the start: none, one of a dead process, one of
\* a running process.
ManagerInit ==
  /\ DaemonInit
  /\ config = [threshold |-> 1, slackWebhookUrl |-> TRUE]
  /\ stored = NoRecord
  /\ gate = GateIdle
  /\ call = CallIdle
  /\ sem = SemIdle
  /\ lock = LockIdle
  /\ life = LifeIdle
  /\ store = StoreIdle
  /\ once = OnceIdle
  /\ \E f \in [Names -> {"none", "other"}], o \in [Names -> BOOLEAN] :
       /\ \A n \in Names : o[n] => f[n] = "other"
       /\ manager = ManagerStart(f, o)
  /\ usage = UsageIdle

ManagerStep ==
  \/ \E n \in Names : ManagerAcquireRead(n)
  \/ ManagerAcquireProbe
  \/ ManagerAcquireUnlink
  \/ ManagerAcquireCreate
  \/ \E n \in Names : ManagerReleaseCall(n)
  \/ ManagerReleaseUnlink
  \/ ManagerCleanupCall
  \/ ManagerCleanupRelease
  \/ \E n \in Names : OtherAcquires(n)
  \/ \E n \in Names : OtherReleases(n)
  \/ \E n \in Names : OtherDies(n)

SpecManager == ManagerInit /\ [][ManagerStep]_vars

UsageInit ==
  /\ DaemonInit
  /\ config = [threshold |-> 1, slackWebhookUrl |-> TRUE]
  /\ stored = NoRecord
  /\ gate = GateIdle
  /\ call = CallIdle
  /\ sem = SemIdle
  /\ lock = LockIdle
  /\ life = LifeIdle
  /\ store = StoreIdle
  /\ once = OnceIdle
  /\ manager = ManagerIdle
  /\ \E p \in Payloads : usage = UsageStart(p)

UsageStep ==
  \/ UsageExecute
  \/ \E executed \in {"returned", "threw", "ENOBUFS"} : UsageSettle(executed)

SpecUsage == UsageInit /\ [][UsageStep]_vars

\* Every continuation that can run does run: the event loop serves the
\* resolved awaits and the armed interval timer.
SpecLifeFair == SpecLife /\ WF_vars(LifeProgress)

----------------------------------------------------------------------------
\* Properties.

InFlight == BagToSet(cyc)

\* The number of cycles whose stateRepository.save has not been called yet.
Unfinished ==
  BagCardinality([r \in {x \in InFlight : x.pc \in {"fetch", "send", "returned"}}
                    |-> cyc[r]])

\* Cycle r has returned a CheckUsageOutput.
Returned(r) == r.pc \in {"returned", "saved"}

\* C1: within one daemon instance the sink is called successfully at most
\* once on any calendar day, whatever the ticks do.
C1_AtMostOncePerDay == \A d \in Days : deliveredInst[d] <= 1

\* C2: check cycles are strictly sequential: no cycle is started while an
\* earlier one has not yet reached its state save, so at most one cycle is
\* before its save at any time.
C2_CyclesSequential == Unfinished <= 1

\* C3: a day on which an earlier process instance delivered a notification
\* sees no delivery by an instance started after it.
C3_NoDeliveryAfterRestart ==
  \A d \in Days : deliveredPrev[d] => deliveredInst[d] = 0

\* C4: the decision equals exceeded AND lastNotificationDate # today for
\* every state, in particular it is false when lastNotificationDate is
\* today and it does not depend on lastExceedanceDate.
C4_GateDecision ==
  gate.applied =>
    gate.send = (gate.exceeded /\ gate.state.lastNotificationDate # gate.today)

\* C4 witness: a breach continuing today (lastExceedanceDate is today) that
\* was notified on an earlier day is decided send = true.
C4_Witness ==
  /\ gate.applied
  /\ gate.exceeded
  /\ gate.state.lastExceedanceDate = gate.today
  /\ gate.state.lastNotificationDate \notin {0, gate.today}
  /\ gate.send

\* A step of a failing cycle r: its fetch or its sink call fails, or its
\* caller handles the { success: false } it got.
CycleFailedStep(r) ==
  \/ r.pc \in {"fetch", "send"} /\ cyc' = Move(r, [r EXCEPT !.pc = "failed"])
  \/ r.pc = "failed" /\ cyc' = Drop(r) /\ phase' # "exited"

\* C5: a failing cycle leaves the in-memory state and the state file as
\* they were; and when its sink call failed and the scheduler still holds
\* the state the cycle started from, on the day of the decision, the gate
\* stays at send = true for the next cycle.
C5_FailedCycleKeepsState ==
  [][\A r \in InFlight :
       CycleFailedStep(r) =>
         /\ MemState' = MemState
         /\ currentState' = currentState
         /\ stored' = stored
         /\ (r.sinkCalled /\ r.state = MemState /\ r.decidedDay = today)
              => shouldSendNotification(MemState', TRUE, today')]_vars

\* C5 witness: the sink call of a periodic cycle has failed, the scheduler
\* and the state file hold the state the cycle started from, with an
\* earlier notification date, and the gate is open for today.
C5_Witness ==
  \E r \in InFlight :
    /\ phase = "periodic"
    /\ r.pc = "failed"
    /\ r.sinkCalled
    /\ r.state = MemState
    /\ stored = Record(MemState)
    /\ MemState.lastNotificationDate # 0
    /\ shouldSendNotification(MemState, TRUE, today)

\* The new state of the call carries one and the same date in both fields,
\* a date of the call: not before its decision, not after its return.
BothDatesOneDay ==
  \E d \in CallDays :
    /\ call.r.decidedDay <= d
    /\ d <= call.today
    /\ call.r.newState = [lastNotificationDate |-> d, lastExceedanceDate |-> d]

\* C6: a cycle that saw the cost above the threshold with
\* lastNotificationDate # today and a configured sink, and whose delivery
\* succeeded, returns exceeded = true and notificationSent = true, and its
\* new state has lastNotificationDate and lastExceedanceDate both equal to
\* today, whatever state it started from.
C6_SentResult ==
  (/\ Returned(call.r)
   /\ call.r.thresholdExceeded
   /\ call.r.state.lastNotificationDate # call.r.decidedDay
   /\ call.config.slackWebhookUrl)
    => /\ call.r.notificationSent
       /\ call.r.sinkCalled
       /\ BothDatesOneDay

\* C7: a cycle that saw the cost above the threshold and delivered nothing
\* did not call the sink, returns notificationSent = false, and its new
\* state has lastExceedanceDate = today and lastNotificationDate unchanged.
C7_UnsentExceedance ==
  (/\ Returned(call.r)
   /\ call.r.thresholdExceeded
   /\ ~call.r.notificationSent)
    => /\ ~call.r.sinkCalled
       /\ call.r.newState.lastExceedanceDate = call.r.decidedDay
       /\ call.r.newState.lastNotificationDate =
            call.r.state.lastNotificationDate

\* C8: a cycle whose result is exceeded = false returns its input state,
\* notificationSent = false, and has not called the sink.
C8_NotExceededFrame ==
  (Returned(call.r) /\ ~call.r.thresholdExceeded)
    => /\ call.r.newState = call.r.state
       /\ ~call.r.notificationSent
       /\ ~call.r.sinkCalled

\* C8 witness: a cycle with exceeded = false has returned a state that has
\* both dates set, to different days.
C8_Witness ==
  /\ Returned(call.r)
  /\ ~call.r.thresholdExceeded
  /\ call.r.state.lastNotificationDate # 0
  /\ call.r.state.lastExceedanceDate # 0
  /\ call.r.state.lastExceedanceDate # call.r.state.lastNotificationDate
  /\ call.r.newState = call.r.state

\* C9: after a delivery on day D (both dates = D), a cycle that sees the
\* cost above the threshold on a later day D' calls the sink, and when its
\* delivery has succeeded it has sent and both dates of its new state are D'.
C9_RearmOnNewDay ==
  (/\ call.r.pc \in {"send", "failed", "returned"}
   /\ call.r.thresholdExceeded
   /\ call.config.slackWebhookUrl
   /\ call.r.state.lastNotificationDate = call.r.state.lastExceedanceDate
   /\ call.r.state.lastNotificationDate # 0
   /\ call.r.state.lastNotificationDate < call.r.decidedDay)
    => /\ call.r.sinkCalled
       /\ Returned(call.r) =>
            /\ call.r.notificationSent
            /\ BothDatesOneDay

\* lastNotificationDate of every in-memory copy is absent, the loaded
\* value, or a date up to the clock's.
NotificationDateInRange ==
  \A s \in {currentState, loopState} :
    \/ s.lastNotificationDate = 0
    \/ s.lastNotificationDate = loaded.lastNotificationDate
    \/ s.lastNotificationDate <= today

\* The caller of a cycle that has sent takes over the cycle's new state.
SentCycleReturns ==
  \E r \in InFlight :
    /\ r.pc = "returned"
    /\ r.notificationSent
    /\ cyc' = Move(r, [r EXCEPT !.pc = "saved"])

\* C10: lastNotificationDate is absent, the loaded value or a date not
\* later than the clock's, and while the daemon runs it changes only in a
\* cycle whose sink call has completed successfully.
C10_NotificationDateDiscipline ==
  [][/\ NotificationDateInRange'
     /\ (/\ Alive
         /\ Alive'
         /\ MemState'.lastNotificationDate # MemState.lastNotificationDate)
          => SentCycleReturns]_vars

\* The caller of cycle r handles the { success: false } it got.
CallerHandlesFailure(r) ==
  /\ r.pc = "failed"
  /\ cyc' = Drop(r)
  /\ Alive'

\* C11: after a cycle that failed (the first check or a later one), the
\* scheduler is still running, and unless shutdown was requested the
\* interval timer is armed, so that the next tick starts another cycle.
C11_FailedCycleKeepsLoop ==
  [][\A r \in InFlight :
       CallerHandlesFailure(r) =>
         /\ phase' \in {"periodic", "stopped"}
         /\ ~isShuttingDown' => (phase' = "periodic" /\ intervalId')]_vars

\* C11 witness: the first check of this instance failed (no check has been
\* counted), the scheduler runs, and a tick has started another cycle.
C11_Witness ==
  /\ phase = "periodic"
  /\ ~isShuttingDown
  /\ intervalId
  /\ checkCount = 0
  /\ \E r \in InFlight : r.pc = "fetch"

\* C12: in every cycle the sink is called only after the decision made on
\* the fetched data, and the state is saved only by the caller of a cycle
\* that has returned, that is after the sink call, if any, has resolved.
C12_StepOrder ==
  [][/\ \A r \in BagToSet(cyc') :
          /\ r.sinkCalled => (r.thresholdExceeded /\ r.decidedDay # 0)
          /\ r.pc = "send" => r.sinkCalled
          /\ r.pc = "saved" => (r.sinkCalled => r.notificationSent)
     /\ stored' # stored =>
          \E r \in InFlight :
            /\ r.pc = "returned"
            /\ r.sinkCalled => r.notificationSent
            /\ cyc' = Move(r, [r EXCEPT !.pc = "saved"])
            /\ stored' = Record(r.newState)]_vars

\* C12 witness: a cycle fetched, decided, delivered, and its new state has
\* then been saved.
C12_Witness ==
  \E r \in InFlight :
    /\ r.pc = "saved"
    /\ r.sinkCalled
    /\ r.notificationSent
    /\ r.state # r.newState
    /\ stored = Record(r.newState)

\* The callers whose acquire resolved true and who have not released.
Holders == {c \in Callers : sem.st[c] \in {"granted", "running"}}

Waiting == {c \in Callers : sem.st[c] = "waiting"}

\* C13: at most one caller holds the guard at any time; and a caller waits
\* only while another one holds, so of two acquire calls on a fresh guard
\* exactly one is granted at once.
C13_MutualExclusion ==
  /\ Cardinality(Holders) <= 1
  /\ Holders # {} => sem.acquired
  /\ Waiting # {} => Cardinality(Holders) = 1

\* C13 witness: two acquire calls on a fresh guard, one granted at once,
\* the other waiting.
C13_Witness ==
  \E c, d \in Callers :
    /\ sem.st[c] = "granted"
    /\ c \notin sem.waited
    /\ sem.st[d] = "waiting"
    /\ sem.executed = {}

\* A release by holder c with a waiter queued.
ReleaseWithQueue(c) ==
  /\ sem.st[c] = "running"
  /\ sem'.st[c] = "done"
  /\ sem.waitQueue # << >>

\* C14: a release with a non-empty wait queue makes the head of the queue
\* the holder and resolves only its acquire; the flag is set when the
\* release returns, so that an acquire issued then is queued; the other
\* waiters keep waiting, in their order.
C14_ReleaseTransfers ==
  [][\A c \in Callers :
       ReleaseWithQueue(c) =>
         LET head == Head(sem.waitQueue)
         IN  /\ sem'.acquired
             /\ sem'.st[head] = "granted"
             /\ sem'.resolves[head] = 1
             /\ sem'.waitQueue = Tail(sem.waitQueue)
             /\ \A w \in Callers \ {head} :
                  /\ sem'.resolves[w] = sem.resolves[w]
                  /\ sem.st[w] = "waiting" => sem'.st[w] = "waiting"
             /\ \A x \in Callers :
                  sem'.st[x] = "idle" =>
                    SemAcquire(sem', x).st[x] = "waiting"]_vars

\* C14 witness: the guard went from a finished holder to the first of two
\* waiters; the second still waits.
C14_Witness ==
  \E h, w, d \in Callers :
    /\ sem.st[d] = "done"
    /\ sem.releases[d] = 1
    /\ sem.st[h] = "granted"
    /\ h \in sem.waited
    /\ sem.st[w] = "waiting"

\* C15: every acquire resolves at most once, a waiting one has its timer
\* armed and its queue entry, a refused one has neither and is never
\* granted later, and no granted caller is resolved false by its timer.
C15_ResolvesOnce ==
  [][\A c \in Callers :
       /\ sem'.resolves[c] <= 1
       /\ sem'.st[c] \in {"granted", "refused", "running", "done"}
            => sem'.resolves[c] = 1
       /\ sem'.st[c] = "waiting"
            => /\ c \in sem'.timers
               /\ InQueue(sem'.waitQueue, c)
               /\ sem'.resolves[c] = 0
       /\ sem'.st[c] # "waiting"
            => /\ c \notin sem'.timers
               /\ ~InQueue(sem'.waitQueue, c)
       /\ sem.st[c] = "refused" => sem'.st[c] \in {"refused", "done"}
       /\ sem.result[c] = "guardTimeout" => sem'.result[c] = "guardTimeout"
       /\ c \notin sem'.lateFalse]_vars

\* C15 witness: a call timed out while the guard was held; afterwards the
\* holder released and the guard went to nobody.
C15_Witness ==
  \E c, d \in Callers :
    /\ sem.result[c] = "guardTimeout"
    /\ sem.st[d] = "done"
    /\ sem.releases[d] = 1
    /\ ~sem.acquired

\* C16: a fetchUsageData call that acquired the guard has released it
\* exactly once when it ends, whatever its outcome, and not before; with no
\* call holding, the guard is free and the next call acquires it at once.
C16_ReleasedOnEveryExit ==
  /\ \A c \in Callers :
       /\ (sem.st[c] = "done" /\ c \in sem.executed) => sem.releases[c] = 1
       /\ sem.st[c] # "done" => sem.releases[c] = 0
  /\ Holders = {} =>
       /\ ~sem.acquired
       /\ \A x \in Callers :
            sem.st[x] = "idle" => SemAcquire(sem, x).st[x] = "granted"

\* C16 witness: one call ended with each of the failures, and the guard is
\* free for the next call.
C16_Witness ==
  \E c, d \in Callers :
    /\ sem.result[c] = "tooLarge"
    /\ sem.result[d] = "malformed"
    /\ Holders = {}
    /\ \E x \in Callers : sem.st[x] = "idle"

\* C17: a call whose acquire timed out ends with the guard-timeout error,
\* has not run the command and has not released; its end leaves the flag,
\* the queue and the holder as they were.
C17_GuardTimeoutFailsFast ==
  [][\A c \in Callers :
       /\ sem'.result[c] = "guardTimeout"
            => (c \notin sem'.executed /\ sem'.releases[c] = 0)
       /\ (sem.st[c] = "refused" /\ sem'.st[c] = "done")
            => /\ sem'.result[c] = "guardTimeout"
               /\ sem'.acquired = sem.acquired
               /\ sem'.waitQueue = sem.waitQueue
               /\ Holders' = Holders]_vars

\* C17 witness: a call ended with the guard-timeout error while the holder
\* is still running its command.
C17_Witness ==
  \E c, h \in Callers :
    /\ sem.result[c] = "guardTimeout"
    /\ sem.st[h] = "running"
    /\ sem.acquired

\* p's acquireLock has returned, and no other process took a step during
\* the call.
SoloCallDone(l, p) == l.solo[p] /\ l.pc[p] \in {"held", "refused"}

C19_SingleLiveHolder ==
  Cardinality({p \in Procs : lock.pc[p] = "held"}) <= 1

\* The record names no live process: a pid with no process, or content that
\* is not a process identifier.
StaleOrInvalid(l, f) ==
  /\ f.exists
  /\ \/ f.content.kind \in {"dead", "garbage", "empty", "zero"}
     \/ f.content.kind = "proc" /\ l.pc[f.content.pid] = "dead"

\* C20: run alone on a record that names a dead process or holds no valid
\* process identifier, acquireLock returns true and the record holds the
\* caller's pid.
C20_StaleTakeover ==
  \A p \in Procs :
    (SoloCallDone(lock, p) /\ StaleOrInvalid(lock, lock.seen[p]))
      => /\ lock.pc[p] = "held"
         /\ lock.file = File(p, Pid(p))

\* C21: when acquireLock returns false, execute returns the failure result
\* with no state loaded, no signal handler installed, no check started, no
\* sink call and no save; and nothing of that happens afterwards.
C21_LockRefusedIsFatal ==
  [][life'.phase = "failed" =>
       /\ ~life'.loaded
       /\ ~life'.handlers
       /\ ~life'.lockHeld
       /\ ~life'.intervalId
       /\ life'.started = 0
       /\ LifeInFlight(life') = 0
       /\ ~life'.sinkCalled
       /\ ~life'.saved]_vars

\* C21 witness: execute has returned the failure result after a refused
\* lock.
C21_Witness ==
  /\ life.phase = "failed"
  /\ ~life.lockHeld
  /\ life.started = 0

\* C22: a shutdown request made while the first check is in flight or the
\* periodic checks are running is followed by the return of execute.
C22_ShutdownReachesStopped ==
  (life.isShuttingDown /\ life.requestAt \in {"first", "periodic"})
    ~> (life.phase = "returned")

\* C23 as stated: once isShuttingDown is set no check cycle is started.
C23_NoCycleAfterRequest ==
  [][life.isShuttingDown => life'.started = life.started]_vars

\* C23 amended: once isShuttingDown is set no interval tick starts a check
\* cycle; only the first check, when forceShutdown was called while execute
\* awaited the process lock, is still started.
C23_NoTickCycleAfterRequest ==
  [][(life.isShuttingDown /\ life.phase # "locking")
       => life'.started = life.started]_vars

\* C23 witness: the request came during the first check, the interval was
\* armed afterwards, and its first tick stopped the scheduler without
\* starting a check.
C23_Witness ==
  /\ life.requestAt = "first"
  /\ life.phase \in {"stopping", "returned"}
  /\ life.started = 1
  /\ life.ticks = 0

\* C24: the process lock is released, and the scheduler stops (execute
\* returns or the process exits), only when no check cycle is in flight:
\* a cycle running at the shutdown request has finished, save included.
C24_InFlightCycleCompletes ==
  [][(\/ life.lockHeld /\ ~life'.lockHeld
      \/ life.phase \notin {"returned", "exited"}
           /\ life'.phase \in {"returned", "exited"})
       => LifeInFlight(life) = 0]_vars

\* C25: when execute has returned the process lock is released and no
\* acquire is queued on the execution semaphore; and once a cleanup of the
\* shutdown has completed no acquire is left queued (each was resolved
\* false).
C25_ShutdownReleasesLockAndGuard ==
  /\ life.phase = "returned" => (~life.lockHeld /\ life.wait = 0)
  /\ life.cleaned => life.wait = 0

\* C26: no check before execute holds the lock; exactly one check, started
\* with no timer armed, while the first check is in flight; afterwards one
\* check per interval tick that ran without a shutdown, so ticks + 1 checks
\* in all.
C26_FirstCheckThenTicks ==
  /\ life.phase \in {"idle", "locking", "failed"} => life.started = 0
  /\ life.phase = "first" =>
       (life.started = 1 /\ life.ticks = 0 /\ ~life.intervalId)
  /\ life.phase \notin {"idle", "locking", "failed"} =>
       life.started = life.ticks + 1

\* C26 witness: two ticks have run, the second while the check of the first
\* was still in flight, and three checks have been started.
C26_Witness ==
  /\ life.ticks = 2
  /\ life.started = 3
  /\ life.wait = 1
  /\ ~life.isShuttingDown

\* C27 as stated: whatever the requests, the shutdown's cleanup is started
\* once, process.exit is called exactly once by the time the daemon has
\* stopped, and the first forceShutdown returns true, every later one false.
C27_ShutdownIdempotent ==
  /\ life.requestCleanups <= 1
  /\ life.exits <= 1
  /\ (life.requests > 0 /\ life.phase \in {"returned", "exited"})
       => life.exits = 1
  /\ life.firstForce # "false"
  /\ life.forceTrue <= 1

\* C27 amended: only the first request acts: it starts the one cleanup of a
\* request; process.exit is called at most once, and only when that first
\* request was a signal; forceShutdown returns true at most once, and only
\* when no request came before it.
C27_FirstRequestOnly ==
  /\ life.requestCleanups = (IF life.requests > 0 THEN 1 ELSE 0)
  /\ life.exits <= 1
  /\ life.exits = 1 <=> life.phase = "exited"
  /\ life.exits = 1 => life.forceTrue = 0
  /\ life.forceTrue <= 1
  /\ life.forceTrue = 1 => life.firstForce = "true"
  /\ life.firstForce = "false" => (life.requests >= 2 /\ life.forceTrue = 0)

\* C27 witness: a signal, then a second request, then the exit of the
\* signal handler.
C27_Witness ==
  /\ life.requests = 2
  /\ life.requestCleanups = 1
  /\ life.exits = 1
  /\ life.phase = "exited"

\* C28: a single-shot run that starts from an empty state with the cost
\* above the threshold sends; and when a run has sent, a later run that
\* decides on the same day with the cost above the threshold returns
\* notificationSent = false.
C28_SingleShotDeduplicates ==
  /\ (/\ once.run >= 1
      /\ Load(once.first) = EmptyState
      /\ once.res[1].exceeded)
       => once.res[1].sent
  /\ \A i, j \in OnceRuns :
       (/\ i < j
        /\ once.res[i].sent
        /\ once.res[j].exceeded
        /\ once.res[j].day = once.res[i].day)
         => ~once.res[j].sent

\* C29: load() never throws; it returns the empty state when the state file
\* does not exist or its text cannot be parsed, and otherwise a state equal
\* to the argument of the most recent save() whose write completed.
C29_ReadContract ==
  store.read.done =>
    /\ ~store.read.result.threw
    /\ (~store.read.observed.exists \/ ~WellFormed(store.read.observed.text))
         => store.read.result.state = EmptyState
    /\ (store.read.observed.exists /\ WellFormed(store.read.observed.text))
         => /\ store.read.last.some
            /\ store.read.result.state = store.read.last.state

\* A load() after a save() of a state with both dates set returned that state.
C29_Witness ==
  /\ store.read.done
  /\ store.read.saved
  /\ store.read.last.some
  /\ store.read.result.state = store.read.last.state
  /\ store.read.result.state.lastNotificationDate # 0
  /\ store.read.result.state.lastExceedanceDate # 0

\* C30: at every moment, during a save() and after a crash during one, the
\* state file that a reader would find is either the complete file from
\* before the save or the complete new file, never a partly written one.
C30_AtomicWrite == store.file \in {store.previous, store.next}

\* C31: release() on a guard that is not held changes nothing: the flag
\* stays false, the wait queue is unchanged, no promise is resolved, and an
\* acquire issued next is granted at once.
C31_ReleaseNotHeldIsNoOp ==
  [][sem'.warnings # sem.warnings =>
       /\ ~sem.acquired
       /\ ~sem'.acquired
       /\ sem'.waitQueue = sem.waitQueue
       /\ sem'.st = sem.st
       /\ sem'.resolves = sem.resolves
       /\ \A c \in Callers : SemAcquire(sem', c).st[c] = "granted"]_vars

\* C31 witness: the warning was logged and the acquire issued after it was
\* granted without waiting.
C31_Witness ==
  /\ sem.warnings >= 1
  /\ sem.forces = 0
  /\ \E c \in Callers : sem.st[c] = "granted" /\ c \notin sem.waited

\* C32: forceRelease() leaves the guard free with an empty wait queue, and
\* resolves the acquire of every queued waiter with false and clears its
\* timer; an acquire resolved false is never granted afterwards and is
\* resolved once only.
C32_ForceReleaseFailsWaiters ==
  [][/\ sem'.forces # sem.forces =>
          /\ ~sem'.acquired
          /\ sem'.waitQueue = << >>
          /\ \A c \in Queued(sem) :
               /\ sem'.st[c] = "refused"
               /\ sem'.resolves[c] = 1
               /\ c \notin sem'.timers
     /\ \A c \in Callers :
          sem.st[c] \in {"refused", "done"} =>
            /\ sem'.st[c] \in {"refused", "done"}
            /\ sem'.resolves[c] = sem.resolves[c]
            /\ c \notin sem'.lateFalse]_vars

\* C32 witness: forceRelease() with two waiters queued has refused both.
C32_Witness ==
  /\ sem.forces >= 1
  /\ sem.waitQueue = << >>
  /\ ~sem.acquired
  /\ Cardinality({c \in sem.waited : sem.st[c] = "refused"}) >= 2
  /\ sem.timers = {}

\* The callers whose external command is executing.
InsideFetch == {c \in Callers : sem.st[c] = "running"}

\* C35: mutual exclusion survives forceRelease(): after a forceRelease()
\* called while a caller holds the guard, two callers are never inside the
\* guarded fetch at the same time.
C35_ExclusionSurvivesForceRelease ==
  sem.forces >= 1 => Cardinality(InsideFetch) <= 1

\* C38: whenever the wait queue is not empty the guard is held, and every
\* entry of the queue belongs to an acquire that is still pending, each once.
C38_WaitQueueInvariant ==
  /\ sem.waitQueue # << >> => sem.acquired
  /\ \A i \in 1..Len(sem.waitQueue) :
       /\ sem.st[sem.waitQueue[i]] = "waiting"
       /\ sem.resolves[sem.waitQueue[i]] = 0
       /\ \A j \in 1..Len(sem.waitQueue) :
            sem.waitQueue[i] = sem.waitQueue[j] => i = j

\* C38 witness: a waiter is queued behind a holder after one waiter timed
\* out and the queue was emptied by forceRelease().
C38_Witness ==
  /\ sem.waitQueue # << >>
  /\ sem.forces >= 1
  /\ \E c \in Callers : sem.result[c] = "guardTimeout"

\* A step of cleanup(): a releaseLock of its loop has returned.
CleanupStep == manager.call.op = "cleanup" /\ manager'.call # manager.call

\* C33: each round of cleanup() removes the record of one lock this instance
\* acquired and touches no other record; when cleanup() returns, no lock it
\* found acquired has its record left, and the records of the names it did
\* not acquire (a live holder's, after a refused acquireLock) are as they
\* were; releaseLock on a missing record returns without an error.
C33_CleanupReleasesOwnLocksOnly ==
  [][/\ CleanupStep =>
          LET n == Head(manager.call.todo)
          IN  /\ n \in SeqToSet(manager.call.lockNames)
              /\ manager'.files[n] = "none"
              /\ \A m \in Names \ {n} : manager'.files[m] = manager.files[m]
     /\ (CleanupStep /\ manager'.call.op = "idle") =>
          /\ manager'.last.op = "cleanup"
          /\ ~manager'.last.threw
          /\ \A n \in SeqToSet(manager.call.lockNames) :
               manager'.files[n] # "mine"
     /\ (/\ manager.call.op = "release"
         /\ manager'.call.op = "idle"
         /\ manager.files[manager.call.name] = "none") =>
          /\ manager'.last.op = "release"
          /\ manager'.last.missing
          /\ ~manager'.last.threw
          /\ manager'.files = manager.files]_vars

\* C33 witness: a cleanup() that follows an acquireLock refused on a running
\* holder has released the first of two locks and is at the last round of
\* its loop; the holder's record is in place.
C33_Witness ==
  /\ manager.call.op = "cleanup"
  /\ Len(manager.call.lockNames) = 2
  /\ Len(manager.call.todo) = 1
  /\ manager.files[manager.call.lockNames[1]] = "none"
  /\ manager.last.op = "acquire"
  /\ manager.last.alive
  /\ manager.files[manager.last.name] = "other"
  /\ manager.other[manager.last.name]

\* acquireLock returns false after its liveness test.
RefusedAlive ==
  /\ manager.call.op = "acquire"
  /\ manager.call.pc = "probe"
  /\ manager'.call.op = "idle"

\* C40: an acquireLock(name) that returns false because the recorded process
\* is running leaves every lock record as it was, the record of the name
\* holding what the call had read, and leaves acquiredLocks as it was,
\* without the name when the holder is another process.
C40_RefusedAcquireChangesNothing ==
  [][RefusedAlive =>
       /\ manager'.last.op = "acquire"
       /\ ~manager'.last.value
       /\ manager'.files = manager.files
       /\ manager'.files[manager.call.name] = manager.call.seen
       /\ manager'.acquiredLocks = manager.acquiredLocks
       /\ manager.call.seen = "other" =>
            manager.call.name \notin SeqToSet(manager'.acquiredLocks)]_vars

\* C40 witness: acquireLock has returned false on the record of a running
\* process, which is still there.
C40_Witness ==
  /\ manager.last.op = "acquire"
  /\ manager.last.alive
  /\ ~manager.last.value
  /\ manager.files[manager.last.name] = "other"
  /\ manager.other[manager.last.name]

ShutDownComplete ==
  /\ phase \in {"periodic", "stopped"}
  /\ isShuttingDown
  /\ ~intervalId
  /\ ~exitPending
  /\ cyc = EmptyBag

\* C36: once the daemon has shut down, after any number of periodic cycles,
\* execute has returned, and the finalState it returned (its currentState)
\* is the state most recently handed to stateRepository.save (the
\* currentState of startPeriodicChecks).
C36_FinalStateIsLastSaved ==
  ShutDownComplete => (phase = "stopped" /\ currentState = loopState)

\* C37: when a cycle has completed successfully (its save has returned), the
\* state read back from the state file is the scheduler's in-memory state,
\* also when the write failed.
C37_StoreEqualsMemory ==
  [][checkCount' = checkCount + 1 => Load(stored') = MemState']_vars

\* C39: the two dates written by a cycle that sent a notification are equal
\* to each other and to the date of its send decision, wherever midnight
\* falls between the decision, the delivery and the state update.
C39_DatesOfTheDecision ==
  (Returned(call.r) /\ call.r.notificationSent) =>
    /\ call.r.newState.lastNotificationDate = call.r.newState.lastExceedanceDate
    /\ call.r.newState.lastNotificationDate = call.r.decidedDay

====
